---------------------------- MODULE Spec2Model ----------------------------
(***************************************************************************)
(* Verification model of the slab pool allocator:                          *)
(*   - SpinLock          (spinlock.hpp, kept as src/unnamed/part_001)      *)
(*   - Slab<ElemSize>    (src/spallocator/slab.hpp)                        *)
(*   - Pool              (pool.hpp, kept in src/spallocator/objectAlive.hpp)*)
(*   - LifetimeObserver  (src/spallocator/lifetimeobserver.hpp)            *)
(* Each subsystem has its own specification over the shared variable       *)
(* tuple; the variables of the other subsystems stay parked.               *)
(***************************************************************************)
EXTENDS Integers, Sequences, FiniteSets, TLC

(***************************************************************************)
(* Bounds of the model                                                     *)
(***************************************************************************)
\* threads contending for one SpinLock
NumLockThreads == 3
\* increments each SpinLock worker performs (tester.cpp uses 1000)
Increments == 1
\* spin-phase iterations of lock(); the source spins 100 times
SpinLimit == 1
\* backoff sleeps of one lock() call; the source sleeps 10 times
BackoffLimit == 1

\* threads calling into one Pool
NumThreads == 2
\* pointers the callers may hold at a time (allocations in progress count)
MaxOutstanding == 3
\* chunks a Slab may own; the source allows 4_GB / slab_alloc_size
MaxSlabs == 2
\* the factor of selectBufferSize (4_KB, ElemSize * 4); the source uses 4
BufferFactor == 2
\* LifetimeObserver objects and ControlBlocks a run may create
MaxHandles == 3
MaxBlocks == 4
\* largest user_bytes handed to the class selection on its own
MaxUserBytes == 1100
\* threads that use LifetimeObserver objects of one ControlBlock
NumLOThreads == 2
\* largest element count of an array, and the unique_pool_ptr objects it
\* can be moved through
MaxElems == 3
MaxUniqueHandles == 3

\* program constants
\* lock(): if (backoff_count < 10)
MaxBackoffs == 10
DistMin == 1
DistMax == 100
KB == 1024
MinAlignment == 4
MaxAlignment == 16
MinHeader == 8
DefaultAlignment == 8

VARIABLES
    \* ---- SpinLock ----
    lock_flag,      \* std::atomic_flag: TRUE = held
    sl_pc,          \* per thread: position inside lock/try_lock/unlock/worker
    spin_i,         \* per thread: loop variable i of the spin phase
    backoff_count,  \* per thread: local backoff_count of lock()
    wait_time,      \* per thread: local wait_time of lock(), in ns
    counter,        \* the shared integer of SpinLockTest.MultipleThreads
    tmp,            \* per thread: value read by ++counter before it is written back
    iters,          \* per thread: completed lock/++counter/unlock rounds
    \* ---- Pool and its Slabs ----
    pool_lock,          \* Pool::lock: 0 = free, else the holding thread
    slab_lock,          \* per class: Slab::slab_lock, 0 = free, else the holder
    slab_data,          \* per class: sequence of chunk base addresses
    slab_map,           \* per class: sequence of occupancy bitsets (sets of set bits)
    slab_available_map, \* per class: availability bitset (set of set bits)
    base_address_map,   \* per class: set of <<base address, chunk index>>
    large_live,         \* blocks the system allocator handed to SlabProxy
    header,             \* intact headers in memory: <<user ptr, size bytes, header_size byte>>
    pc,                 \* per Pool thread: position in allocate/deallocate
    loc,                \* per Pool thread: locals of the running call
    outstanding,        \* <<user ptr, item_size, n, header_size, slab, slot base, alignment>>
                        \* returned by allocate and not yet passed to deallocate; n numbers
                        \* the holders of the same pointer from 0
    build,              \* "debug" (-DDEBUG) or "release" (-DNDEBUG), fixed for a run
    misuse,             \* a deallocate was issued for a pointer no caller holds
    \* ---- LifetimeObserver ----
    h_state,            \* per handle: "unborn", "live" or "dead" (destructor has run)
    control_block,      \* per handle: the ControlBlock it points to
    my_ownership,       \* per handle: "owner" or "observer"
    block_state,        \* per ControlBlock: "unalloc", "live" or "deleted"
    owner_count,        \* per ControlBlock
    observer_count,     \* per ControlBlock
    deletes,            \* per ControlBlock: delete expressions applied to it (up to 2)
    observed,           \* per handle: the object whose getObserver() returned it, 0 if
                        \* none or if the handle was assigned to since
    \* ---- Pool::selectSlab on its own ----
    sel_item_size,      \* item_size of the request
    sel_alignment,      \* alignment of the request
    sel_slab_index      \* auto slab_index = selectSlab(alloc_size), NullSlab before the call

lockVars == <<lock_flag, sl_pc, spin_i, backoff_count, wait_time,
              counter, tmp, iters>>

slabVars == <<slab_data, slab_map, slab_available_map, base_address_map>>

poolVars == <<pool_lock, slab_lock, slabVars, large_live, header, pc, loc,
              outstanding, misuse, build>>

loVars == <<h_state, control_block, my_ownership, block_state, owner_count,
            observer_count, deletes, observed>>

selVars == <<sel_item_size, sel_alignment, sel_slab_index>>

\* ordering of memory accesses around a SpinLock: the writes that happen
\* before the current point of each thread, the writes the flag's release
\* sequence carries, and the writes made so far inside critical sections
VARIABLES hb, flag_view, cs_writes

mmVars == <<hb, flag_view, cs_writes>>

\* threads working on LifetimeObserver objects: the position of each thread
\* inside a call, the count it has loaded, the object of the call, the
\* object under construction, and the thread each object belongs to
VARIABLES lo_pc, lo_tmp, lo_this, lo_new, lo_holder

ccVars == <<lo_pc, lo_tmp, lo_this, lo_new, lo_holder>>

\* an array made by make_pool_unique<T[]>: the position inside the maker or
\* the deleter, the size asked for, the loop index, the handle whose deleter
\* runs, the state of each element, the order of the destructor calls, the
\* state of the allocation, and per unique_pool_ptr its existence, its
\* pointer and the size field of its deleter
VARIABLES arr_pc, arr_n, arr_i, arr_cur, elem, destroy_log, pool_block,
          uh_state, uh_ptr, uh_size

arrVars == <<arr_pc, arr_n, arr_i, arr_cur, elem, destroy_log, pool_block,
             uh_state, uh_ptr, uh_size>>

\* per class: the largest number of occupancy bits set at a time so far;
\* and the last Slab operations that succeeded with no other in between,
\* each with its pointer
VARIABLES peak, trail

histVars == <<peak, trail>>

\* the state outside the allocator, the lock workers and the handles
auxVars == <<mmVars, ccVars, arrVars, histVars>>

vars == <<lockVars, poolVars, loVars, selVars, auxVars>>

(***************************************************************************)
(* Slab geometry and the Pool's class table                                *)
(***************************************************************************)
GB == KB * KB * KB

\* the Slab<ElemSize> instances Pool::Pool() creates, index 0..11
ElemSizes == <<16, 32, 48, 64, 96, 128, 192, 256, 384, 512, 768, 1024>>

ElemSize(c) == ElemSizes[c + 1]

\* the slabs the model's requests reach; the other ten stay as constructed
ModelClasses == {10, 11}

\* selectSlab's "large slab" result, numeric_limits<size_t>::max()
LargeSlab == -1

\* constexpr selectBufferSize<ElemSize>()
selectBufferSize(e) == IF e < KB THEN BufferFactor * KB ELSE e * BufferFactor

slab_alloc_size(c) == selectBufferSize(ElemSize(c))

\* size of std::bitset<slab_alloc_size / ElemSize>
SlotCount(c) == slab_alloc_size(c) \div ElemSize(c)

\* size of std::bitset<max_slabs>
max_slabs == MaxSlabs

\* a ladder that compares with < where the source compares with <=
selectSlabStrict(size) ==
    IF size < 16 THEN 0
    ELSE IF size < 32 THEN 1
    ELSE IF size < 48 THEN 2
    ELSE IF size < 64 THEN 3
    ELSE IF size < 96 THEN 4
    ELSE IF size < 128 THEN 5
    ELSE IF size < 192 THEN 6
    ELSE IF size < 256 THEN 7
    ELSE IF size < 384 THEN 8
    ELSE IF size < 512 THEN 9
    ELSE IF size < 768 THEN 10
    ELSE IF size < KB THEN 11
    ELSE LargeSlab

\* Pool::selectSlab
selectSlab(size) ==
    IF size <= 16 THEN 0
    ELSE IF size <= 32 THEN 1
    ELSE IF size <= 48 THEN 2
    ELSE IF size <= 64 THEN 3
    ELSE IF size <= 96 THEN 4
    ELSE IF size <= 128 THEN 5
    ELSE IF size <= 192 THEN 6
    ELSE IF size <= 256 THEN 7
    ELSE IF size <= 384 THEN 8
    ELSE IF size <= 512 THEN 9
    ELSE IF size <= 768 THEN 10
    ELSE IF size <= KB THEN 11
    ELSE LargeSlab

(***************************************************************************)
(* The system allocator: 16-byte aligned blocks at addresses of its choice *)
(***************************************************************************)
PoolThreads == 1..NumThreads

\* distance between the blocks operator new may return
RegionStride == 16 * KB

\* the blocks the chunks of slab c may be placed in: max_slabs - 1 of them
\* on either side of the block of its first chunk
ClassRegions(c) ==
    {((c - 10) * 2 * MaxSlabs + r) * RegionStride : r \in 1..(2 * MaxSlabs - 1)}

ChunkRegions == ClassRegions(10) \cup ClassRegions(11)

\* the block operator new has for SlabProxy
LargeRegions == {4 * MaxSlabs * RegionStride}

SetMin(S) == CHOOSE x \in S : \A y \in S : x <= y
SetMax(S) == CHOOSE x \in S : \A y \in S : x >= y

\* what new(std::align_val_t{16}) std::byte[slab_alloc_size] may return to
\* slab c: the free block next below or next above the chunks it owns, so
\* that chunk addresses need not grow with the chunk index
NewChunkChoices(c, data) ==
    LET used == {data[k] : k \in 1..Len(data)}
    IN  IF used = {}
        THEN {((c - 10) * 2 * MaxSlabs + MaxSlabs) * RegionStride}
        ELSE {SetMin(used) - RegionStride, SetMax(used) + RegionStride}
                \cap ClassRegions(c)

(***************************************************************************)
(* Slab<ElemSize>                                                          *)
(***************************************************************************)
\* an allocateNewSlab that records slab_data.size() as the index of the new
\* chunk
allocateNewSlabOffByOne(data, map, bmap, new_slab) ==
    [data |-> Append(data, new_slab),
     map  |-> Append(map, {}),
     bmap |-> bmap \cup {<<new_slab, Len(data) + 1>>}]

\* Slab::allocateNewSlab applied to the state <<data, map, bmap>> of one slab
allocateNewSlab(data, map, bmap, new_slab) ==
    [data |-> Append(data, new_slab),
     map  |-> Append(map, {}),
     bmap |-> bmap \cup {<<new_slab, Len(data)>>}]

\* Slab::Slab(): slab_available_map.set(); allocateNewSlab()
SlabConstructed(c, new_slab) ==
    LET g == allocateNewSlab(<<>>, <<>>, {}, new_slab)
    IN  [data |-> g.data, map |-> g.map, bmap |-> g.bmap,
         avail |-> 0..(max_slabs - 1)]

\* a scan that takes slot 0 without testing its bit
FirstSlotUntested(c, slots) == 0

\* a scan that finds no free slot in any chunk
FirstFreeSlotNone(c, slots) == -1

\* a scan from the last slot of the chunk down
LastFreeSlot(c, slots) ==
    LET free == (0..(SlotCount(c) - 1)) \ slots
    IN  IF free = {} THEN -1 ELSE SetMax(free)

\* first item_index with !slab_slots.test(item_index), or -1
FirstFreeSlot(c, slots) ==
    LET free == (0..(SlotCount(c) - 1)) \ slots
    IN  IF free = {} THEN -1 ELSE SetMin(free)

\* an update that leaves the availability bit of a full chunk set
AvailableNeverReset(c, avail, slab_index, slots) == avail

\* the availability bitset after item_index of chunk slab_index was set:
\* if (slab_slots.all()) slab_available_map.reset(slab_index)
AvailableAfterSet(c, avail, slab_index, slots) ==
    IF slots = 0..(SlotCount(c) - 1) THEN avail \ {slab_index} ELSE avail

\* an allocateItem that never throws: it hands out the first slot of the
\* first chunk whatever its bit
allocateItemNoThrow(c, slab_index, new_slab) ==
    [status |-> "ok", ptr |-> slab_data[c][1],
     st |-> [data |-> slab_data[c], map |-> slab_map[c],
             avail |-> slab_available_map[c], bmap |-> base_address_map[c]]]

\* the body of Slab::allocateItem from loop index slab_index on; new_slab is
\* the block operator new returns if the slab grows
RECURSIVE allocateItemFrom(_, _, _)
allocateItemFrom(c, slab_index, new_slab) ==
    LET data  == slab_data[c]
        map   == slab_map[c]
        avail == slab_available_map[c]
        bmap  == base_address_map[c]
        same  == [data |-> data, map |-> map, avail |-> avail, bmap |-> bmap]
    IN  IF slab_index > Len(map)
        THEN \* loop left: throw std::out_of_range
             [status |-> "out_of_range", ptr |-> 0, st |-> same]
        ELSE IF slab_index >= max_slabs
        THEN \* std::bitset::test(pos) with pos >= size() throws
             [status |-> "out_of_range", ptr |-> 0, st |-> same]
        ELSE IF slab_index \notin avail
        THEN allocateItemFrom(c, slab_index + 1, new_slab)
        ELSE IF slab_index >= Len(data) /\ Len(data) >= max_slabs
        THEN \* allocateNewSlab(): slab_data.size() >= max_slabs throws
             [status |-> "out_of_range", ptr |-> 0, st |-> same]
        ELSE IF slab_index >= Len(data)
        THEN \* while (slab_index >= slab_data.size()) allocateNewSlab();
             \* then item 0 of the fresh chunk is taken
             LET g     == allocateNewSlab(data, map, bmap, new_slab)
                 slots == {0}
             IN  [status |-> "ok", ptr |-> new_slab,
                  st |-> [data |-> g.data,
                          map |-> [g.map EXCEPT ![slab_index + 1] = slots],
                          avail |-> AvailableAfterSet(c, avail, slab_index, slots),
                          bmap |-> g.bmap]]
        ELSE LET item_index == FirstFreeSlot(c, map[slab_index + 1])
             IN  IF item_index < 0
                 THEN allocateItemFrom(c, slab_index + 1, new_slab)
                 ELSE LET slots == map[slab_index + 1] \cup {item_index}
                      IN  [status |-> "ok",
                           ptr |-> data[slab_index + 1] + item_index * ElemSize(c),
                           st |-> [data |-> data,
                                   map |-> [map EXCEPT ![slab_index + 1] = slots],
                                   avail |-> AvailableAfterSet(c, avail, slab_index, slots),
                                   bmap |-> bmap]]

\* a lookup that omits the range check against the end of the chunk
findSlabNoRangeCheck(c, item) ==
    LET below == {e \in base_address_map[c] : e[1] <= item}
    IN  IF below = {} THEN -1
        ELSE (CHOOSE e \in below : \A f \in below : f[1] <= e[1])[2]

\* Slab::findSlabForItem: the entry before upper_bound(item), if item lies in
\* [slab_start, slab_start + slab_alloc_size); -1 stands for std::nullopt
findSlabForItem(c, item) ==
    LET below == {e \in base_address_map[c] : e[1] <= item}
    IN  IF below = {} THEN -1
        ELSE LET it == CHOOSE e \in below : \A f \in below : f[1] <= e[1]
             IN  IF item >= it[1] /\ item < it[1] + slab_alloc_size(c)
                 THEN it[2] ELSE -1

\* a deallocation that resets the whole bitmap of the chunk
deallocateWholeChunk(c, item) ==
    LET slab_index == findSlabForItem(c, item)
    IN  IF slab_index < 0
        THEN [status |-> "invalid_argument",
              st |-> [data |-> slab_data[c], map |-> slab_map[c],
                      avail |-> slab_available_map[c], bmap |-> base_address_map[c]]]
        ELSE [status |-> "ok",
              st |-> [data |-> slab_data[c],
                      map |-> [slab_map[c] EXCEPT ![slab_index + 1] = {}],
                      avail |-> slab_available_map[c] \cup {slab_index},
                      bmap |-> base_address_map[c]]]

\* a deallocation that leaves the availability bit of the chunk as it is
deallocateKeepAvailable(c, item) ==
    LET data  == slab_data[c]
        map   == slab_map[c]
        avail == slab_available_map[c]
        bmap  == base_address_map[c]
        same  == [data |-> data, map |-> map, avail |-> avail, bmap |-> bmap]
        slab_index == findSlabForItem(c, item)
    IN  IF slab_index < 0
        THEN [status |-> "invalid_argument", st |-> same]
        ELSE LET slab_start == data[slab_index + 1]
                 item_index == (item - slab_start) \div ElemSize(c)
             IN  IF item_index >= SlotCount(c)
                 THEN [status |-> "out_of_range", st |-> same]
                 ELSE IF item_index \in map[slab_index + 1]
                 THEN [status |-> "ok",
                       st |-> [data |-> data,
                               map |-> [map EXCEPT ![slab_index + 1] = @ \ {item_index}],
                               avail |-> avail,
                               bmap |-> bmap]]
                 ELSE [status |-> "invalid_argument", st |-> same]

\* a deallocation that gives the last chunk back to the system once its
\* bitmap is empty
deallocateReleaseChunk(c, item) ==
    LET data  == slab_data[c]
        map   == slab_map[c]
        avail == slab_available_map[c]
        bmap  == base_address_map[c]
        same  == [data |-> data, map |-> map, avail |-> avail, bmap |-> bmap]
        slab_index == findSlabForItem(c, item)
        n == Len(data)
    IN  IF slab_index < 0
        THEN [status |-> "invalid_argument", st |-> same]
        ELSE LET slab_start == data[slab_index + 1]
                 item_index == (item - slab_start) \div ElemSize(c)
             IN  IF item_index >= SlotCount(c)
                 THEN [status |-> "out_of_range", st |-> same]
                 ELSE IF item_index \notin map[slab_index + 1]
                 THEN [status |-> "invalid_argument", st |-> same]
                 ELSE IF slab_index + 1 = n /\ n > 1 /\ map[n] = {item_index}
                 THEN [status |-> "ok",
                       st |-> [data |-> SubSeq(data, 1, n - 1),
                               map |-> SubSeq(map, 1, n - 1),
                               avail |-> avail \cup {slab_index},
                               bmap |-> {e \in bmap : e[2] # slab_index}]]
                 ELSE [status |-> "ok",
                       st |-> [data |-> data,
                               map |-> [map EXCEPT ![slab_index + 1] = @ \ {item_index}],
                               avail |-> avail \cup {slab_index},
                               bmap |-> bmap]]

\* the body of Slab::deallocateItem for a non-null item
deallocateItemBody(c, item) ==
    LET data  == slab_data[c]
        map   == slab_map[c]
        avail == slab_available_map[c]
        bmap  == base_address_map[c]
        same  == [data |-> data, map |-> map, avail |-> avail, bmap |-> bmap]
        slab_index == findSlabForItem(c, item)
    IN  IF slab_index < 0
        THEN [status |-> "invalid_argument", st |-> same]
        ELSE LET slab_start == data[slab_index + 1]
                 item_index == (item - slab_start) \div ElemSize(c)
             IN  IF item_index >= SlotCount(c)
                 THEN \* std::bitset::test(pos) with pos >= size() throws
                      [status |-> "out_of_range", st |-> same]
                 ELSE IF item_index \in map[slab_index + 1]
                 THEN [status |-> "ok",
                       st |-> [data |-> data,
                               map |-> [map EXCEPT ![slab_index + 1] = @ \ {item_index}],
                               avail |-> avail \cup {slab_index},
                               bmap |-> bmap]]
                 ELSE [status |-> "invalid_argument", st |-> same]

(***************************************************************************)
(* SpinLock                                                                *)
(***************************************************************************)
LockThreads == 1..NumLockThreads

\* the draw of dist{1, 100} the model follows: the longest initial wait; the
\* value of wait_time steers no branch of lock()
InitialWaits == {DistMax}

LockInit ==
    /\ lock_flag = FALSE
    /\ sl_pc = [t \in LockThreads |-> "idle"]
    /\ spin_i = [t \in LockThreads |-> 0]
    /\ backoff_count = [t \in LockThreads |-> 0]
    /\ wait_time = [t \in LockThreads |-> 0]
    /\ counter = 0
    /\ tmp = [t \in LockThreads |-> 0]
    /\ iters = [t \in LockThreads |-> 0]

\* no SpinLock worker exists
LockParked ==
    /\ lock_flag = FALSE
    /\ sl_pc = <<>>
    /\ spin_i = <<>>
    /\ backoff_count = <<>>
    /\ wait_time = <<>>
    /\ counter = 0
    /\ tmp = <<>>
    /\ iters = <<>>

\* a thread holds the lock from its successful test_and_set up to the clear
\* of its unlock()
InCS(t) == sl_pc[t] \in {"cs_read", "cs_write", "unlock"}

\* a thread is executing lock()
InLock(t) == sl_pc[t] \in {"spin", "tas", "sleep", "wait", "blocked"}

\* lock(): entry, wait_time{dist(gen)}, backoff_count = 0; the draw is one of
\* waits
LockEnterFrom(t, waits) ==
    /\ sl_pc[t] = "idle"
    /\ \E w \in waits : wait_time' = [wait_time EXCEPT ![t] = w]
    /\ backoff_count' = [backoff_count EXCEPT ![t] = 0]
    /\ spin_i' = [spin_i EXCEPT ![t] = 0]
    /\ sl_pc' = [sl_pc EXCEPT ![t] = "spin"]
    /\ UNCHANGED <<lock_flag, counter, tmp, iters>>

\* lock(): entry, with the draws the model follows
LockEnter(t) == LockEnterFrom(t, InitialWaits)

\* the worker calls lock() while its loop runs, for (i = 0; i < 1000; ++i)
LockCall(t) == iters[t] < Increments /\ LockEnter(t)

\* lock(): one iteration of the spin phase, for (i = 0; i < 100; ++i)
LockSpin(t) ==
    /\ sl_pc[t] = "spin"
    /\ IF spin_i[t] < SpinLimit /\ lock_flag
       THEN \* flag seen set: yield, ++i
            /\ spin_i' = [spin_i EXCEPT ![t] = @ + 1]
            /\ UNCHANGED sl_pc
       ELSE \* break (flag seen clear) or loop exhausted
            /\ sl_pc' = [sl_pc EXCEPT ![t] = "tas"]
            /\ UNCHANGED spin_i
    /\ UNCHANGED <<lock_flag, backoff_count, wait_time, counter, tmp, iters>>

\* a test_and_set that acquires without looking at the old value
LockTASBlind(t) ==
    /\ sl_pc[t] = "tas"
    /\ lock_flag' = TRUE
    /\ sl_pc' = [sl_pc EXCEPT ![t] = "cs_read"]
    /\ spin_i' = [spin_i EXCEPT ![t] = 0]
    /\ backoff_count' = [backoff_count EXCEPT ![t] = 0]
    /\ wait_time' = [wait_time EXCEPT ![t] = 0]
    /\ UNCHANGED <<counter, tmp, iters>>

\* lock(): test_and_set(acquire); on failure choose backoff sleep or wait,
\* if (backoff_count < limit)
LockTASUpTo(t, limit) ==
    /\ sl_pc[t] = "tas"
    /\ IF ~lock_flag
       THEN \* return: the locals of the call end here
            /\ lock_flag' = TRUE
            /\ sl_pc' = [sl_pc EXCEPT ![t] = "cs_read"]
            /\ spin_i' = [spin_i EXCEPT ![t] = 0]
            /\ backoff_count' = [backoff_count EXCEPT ![t] = 0]
            /\ wait_time' = [wait_time EXCEPT ![t] = 0]
       ELSE /\ UNCHANGED <<lock_flag, spin_i, backoff_count, wait_time>>
            /\ sl_pc' = [sl_pc EXCEPT ![t] =
                            IF backoff_count[t] < limit THEN "sleep" ELSE "wait"]
    /\ UNCHANGED <<counter, tmp, iters>>

\* lock(): test_and_set(acquire), with the number of backoff sleeps bounded
LockTAS(t) == LockTASUpTo(t, BackoffLimit)

\* a backoff sleep that leaves wait_time as it was
LockSleepSameWait(t) ==
    /\ sl_pc[t] = "sleep"
    /\ backoff_count' = [backoff_count EXCEPT ![t] = @ + 1]
    /\ spin_i' = [spin_i EXCEPT ![t] = 0]
    /\ sl_pc' = [sl_pc EXCEPT ![t] = "spin"]
    /\ UNCHANGED <<lock_flag, wait_time, counter, tmp, iters>>

\* lock(): sleep_for(wait_time); wait_time += wait_time; ++backoff_count
LockSleep(t) ==
    /\ sl_pc[t] = "sleep"
    /\ wait_time' = [wait_time EXCEPT ![t] = @ + @]
    /\ backoff_count' = [backoff_count EXCEPT ![t] = @ + 1]
    /\ spin_i' = [spin_i EXCEPT ![t] = 0]
    /\ sl_pc' = [sl_pc EXCEPT ![t] = "spin"]
    /\ UNCHANGED <<lock_flag, counter, tmp, iters>>

\* a wait after which lock() returns without a test_and_set of its own
LockWaitReturns(t) ==
    /\ sl_pc[t] = "wait"
    /\ IF lock_flag
       THEN sl_pc' = [sl_pc EXCEPT ![t] = "blocked"]
       ELSE sl_pc' = [sl_pc EXCEPT ![t] = "cs_read"]
    /\ UNCHANGED <<lock_flag, spin_i, backoff_count, wait_time, counter, tmp, iters>>

\* lock(): lock_flag.wait(true): compare and block in one atomic step;
\* returns at once when the flag is no longer set
LockWait(t) ==
    /\ sl_pc[t] = "wait"
    /\ IF lock_flag
       THEN /\ sl_pc' = [sl_pc EXCEPT ![t] = "blocked"]
            /\ UNCHANGED spin_i
       ELSE /\ sl_pc' = [sl_pc EXCEPT ![t] = "spin"]
            /\ spin_i' = [spin_i EXCEPT ![t] = 0]
    /\ UNCHANGED <<lock_flag, backoff_count, wait_time, counter, tmp, iters>>

\* a blocked waiter is unblocked spuriously and re-evaluates the flag
SpuriousWake(t) ==
    /\ sl_pc[t] = "blocked"
    /\ sl_pc' = [sl_pc EXCEPT ![t] = "wait"]
    /\ UNCHANGED <<lock_flag, spin_i, backoff_count, wait_time, counter, tmp, iters>>

\* try_lock(): entry
TryLockCall(t) ==
    /\ sl_pc[t] = "idle"
    /\ iters[t] < Increments
    /\ sl_pc' = [sl_pc EXCEPT ![t] = "try_test"]
    /\ UNCHANGED <<lock_flag, spin_i, backoff_count, wait_time, counter, tmp, iters>>

\* try_lock(): if (lock_flag.test(relaxed)) return false
TryLockTest(t) ==
    /\ sl_pc[t] = "try_test"
    /\ IF lock_flag
       THEN /\ sl_pc' = [sl_pc EXCEPT ![t] = "idle"]
       ELSE /\ sl_pc' = [sl_pc EXCEPT ![t] = "try_tas"]
    /\ UNCHANGED <<lock_flag, spin_i, backoff_count, wait_time, counter, tmp, iters>>

\* a try_lock() that reports success whatever test_and_set returned
TryLockTASAlwaysTrue(t) ==
    /\ sl_pc[t] = "try_tas"
    /\ lock_flag' = TRUE
    /\ sl_pc' = [sl_pc EXCEPT ![t] = "cs_read"]
    /\ UNCHANGED <<spin_i, backoff_count, wait_time, counter, tmp, iters>>

\* try_lock(): test_and_set(acquire), return true on 0 -> 1, else false
TryLockTAS(t) ==
    /\ sl_pc[t] = "try_tas"
    /\ IF ~lock_flag
       THEN /\ lock_flag' = TRUE
            /\ sl_pc' = [sl_pc EXCEPT ![t] = "cs_read"]
       ELSE /\ UNCHANGED lock_flag
            /\ sl_pc' = [sl_pc EXCEPT ![t] = "idle"]
    /\ UNCHANGED <<spin_i, backoff_count, wait_time, counter, tmp, iters>>

\* worker: ++counter, the load
CounterRead(t) ==
    /\ sl_pc[t] = "cs_read"
    /\ tmp' = [tmp EXCEPT ![t] = counter]
    /\ sl_pc' = [sl_pc EXCEPT ![t] = "cs_write"]
    /\ UNCHANGED <<lock_flag, spin_i, backoff_count, wait_time, counter, iters>>

\* worker: ++counter, the store
CounterWrite(t) ==
    /\ sl_pc[t] = "cs_write"
    /\ counter' = tmp[t] + 1
    /\ tmp' = [tmp EXCEPT ![t] = 0]
    /\ sl_pc' = [sl_pc EXCEPT ![t] = "unlock"]
    /\ UNCHANGED <<lock_flag, spin_i, backoff_count, wait_time, iters>>

\* unlock(): lock_flag.clear(release)
UnlockClear(t) ==
    /\ sl_pc[t] = "unlock"
    /\ lock_flag' = FALSE
    /\ sl_pc' = [sl_pc EXCEPT ![t] = "notify"]
    /\ UNCHANGED <<spin_i, backoff_count, wait_time, counter, tmp, iters>>

\* an unlock() that forgets the notification
UnlockNoNotify(t) ==
    /\ sl_pc[t] = "notify"
    /\ sl_pc' = [sl_pc EXCEPT ![t] = "idle"]
    /\ iters' = [iters EXCEPT ![t] = @ + 1]
    /\ UNCHANGED <<lock_flag, spin_i, backoff_count, wait_time, counter, tmp>>

\* a notification that unblocks every blocked waiter
notify_all(t) ==
    /\ sl_pc[t] = "notify"
    /\ sl_pc' = [w \in LockThreads |->
                    IF w = t THEN "idle"
                    ELSE IF sl_pc[w] = "blocked" THEN "wait" ELSE sl_pc[w]]
    /\ UNCHANGED <<lock_flag, spin_i, backoff_count, wait_time, counter, tmp>>

\* unlock(): lock_flag.notify_one(): unblocks one blocked waiter, if any
notify_one(t) ==
    /\ sl_pc[t] = "notify"
    /\ IF \E w \in LockThreads : sl_pc[w] = "blocked"
       THEN \E w \in LockThreads :
                /\ sl_pc[w] = "blocked"
                /\ sl_pc' = [sl_pc EXCEPT ![t] = "idle", ![w] = "wait"]
       ELSE sl_pc' = [sl_pc EXCEPT ![t] = "idle"]
    /\ UNCHANGED <<lock_flag, spin_i, backoff_count, wait_time, counter, tmp>>

\* the worker: unlock() returns and the round is complete, ++i
UnlockNotify(t) ==
    /\ notify_one(t)
    /\ iters' = [iters EXCEPT ![t] = @ + 1]

\* a caller that holds the lock for a while and leaves the counter alone
Hold(t) ==
    /\ sl_pc[t] = "cs_read"
    /\ sl_pc' = [sl_pc EXCEPT ![t] = "unlock"]
    /\ UNCHANGED <<lock_flag, spin_i, backoff_count, wait_time, counter, tmp, iters>>

\* the steps of a caller that locks and unlocks again and again, once it
\* has called lock()
LoopProgress(t) ==
    \/ LockSpin(t)
    \/ LockTAS(t)
    \/ LockSleep(t)
    \/ LockWait(t)
    \/ Hold(t)
    \/ UnlockClear(t)
    \/ (notify_one(t) /\ UNCHANGED iters)

\* the steps of a thread that the scheduler keeps running
LockProgress(t) ==
    \/ LockSpin(t)
    \/ LockTAS(t)
    \/ LockSleep(t)
    \/ LockWait(t)
    \/ TryLockTest(t)
    \/ TryLockTAS(t)
    \/ CounterRead(t)
    \/ CounterWrite(t)
    \/ UnlockClear(t)
    \/ UnlockNotify(t)

(***************************************************************************)
(* Pool: allocate and deallocate, one step per lock acquisition and per    *)
(* critical section.  Acquiring a SpinLock through std::scoped_lock is one *)
(* step that waits for the lock to be free (the contract of SpinLock::lock *)
(* established on the SpinLock model above).                               *)
(***************************************************************************)
\* AbstractSlab* slab = nullptr
NullSlab == -2

LocNone == [alloc_size |-> 0, header_size |-> 0, slab |-> NullSlab, ptr |-> 0, user |-> 0,
            item_size |-> 0, alignment |-> 0, slab_index |-> 0, item_index |-> 0]

\* the two builds of the Makefile: CXXDEBUG defines DEBUG, CXXRELEASE NDEBUG
Builds == {"debug", "release"}

\* runtime_assert(condition, ...): FALSE when the call ends the process with
\* std::abort(), which only a debug build does
runtime_assert(condition) == condition \/ build # "debug"

\* (alignment & (alignment - 1)) == 0
IsPowerOfTwo(n) == n = 0 \/ \E k \in 0..30 : n = 2^k

\* std::size_t header_size = 8 < alignment ? alignment : 8
headerSize(alignment) == IF MinHeader < alignment THEN alignment ELSE MinHeader

\* the requests the threads issue: <<item_size, alignment>>
ItemSizes == {700, 1000, 2000}
Alignments == {8, 16}

\* the class the single-threaded specification works on
ProbedClass == selectSlab(700 + MinHeader)

\* a header that stores only the low byte of alloc_size
EncodeSizeByte(n) == [i \in 0..3 |-> IF i = 0 THEN n % 256 ELSE 0]

\* *size_ptr = uint32_t(alloc_size & 0xffffffff): the four bytes stored at
\* item - 4, low byte first
EncodeSize(n) == [i \in 0..3 |-> (n \div (256^i)) % 256]

\* std::size_t alloc_size = *size_ptr
DecodeSize(b) == b[0] + 256 * b[1] + 256 * 256 * b[2] + 256 * 256 * 256 * b[3]

\* *header_size_ptr = uint8_t(header_size & 0xff)
EncodeHeaderSize(n) == n % 256

OutPtrs == {o[1] : o \in outstanding}

\* the threads inside Pool::allocate
Allocating ==
    {t \in PoolThreads :
        pc[t] \in {"a_pool", "a_sel", "a_slab", "a_item", "a_set", "a_large", "a_hdr"}}

HeaderPtrs == {e[1] : e \in header}

HeaderAt(p) == CHOOSE e \in header : e[1] = p

\* pointers a caller may pass to Pool::deallocate: the ones it holds, and
\* (double free) slab-served ones freed before whose header bytes are intact
Deallocatable ==
    {p \in HeaderPtrs :
        p \in OutPtrs \/ selectSlab(DecodeSize(HeaderAt(p)[2])) # LargeSlab}

\* pointers handed straight to Slab::deallocateItem: slot bases, addresses
\* inside a slot, the end of the chunk, and addresses in no chunk
ProbePtrs(c) ==
    UNION {{b, b + 8, b + ElemSize(c), b + ElemSize(c) + 8,
            b + slab_alloc_size(c) - 16, b + slab_alloc_size(c)} : b \in ChunkRegions}
        \cup {16}

PoolInit ==
    /\ pool_lock = 0
    /\ slab_lock = [c \in ModelClasses |-> 0]
    /\ \E b10 \in NewChunkChoices(10, <<>>) :
       \E b11 \in NewChunkChoices(11, <<>>) :
            LET s10 == SlabConstructed(10, b10)
                s11 == SlabConstructed(11, b11)
            IN  /\ slab_data = (10 :> s10.data @@ 11 :> s11.data)
                /\ slab_map = (10 :> s10.map @@ 11 :> s11.map)
                /\ slab_available_map = (10 :> s10.avail @@ 11 :> s11.avail)
                /\ base_address_map = (10 :> s10.bmap @@ 11 :> s11.bmap)
    /\ large_live = {}
    /\ header = {}
    /\ pc = [t \in PoolThreads |-> "idle"]
    /\ loc = [t \in PoolThreads |-> LocNone]
    /\ outstanding = {}
    /\ misuse = FALSE
    /\ build \in Builds

\* no Pool exists
PoolParked ==
    /\ pool_lock = 0
    /\ slab_lock = <<>>
    /\ slab_data = <<>>
    /\ slab_map = <<>>
    /\ slab_available_map = <<>>
    /\ base_address_map = <<>>
    /\ large_live = {}
    /\ header = {}
    /\ pc = <<>>
    /\ loc = <<>>
    /\ outstanding = {}
    /\ misuse = FALSE
    /\ build = "release"

\* Pool::allocate up to the scoped_lock: the size check, the alignment
\* assertions and check, header_size and alloc_size; the callers hold fewer
\* than limit pointers
PoolAllocateUpTo(t, item_size, alignment, limit) ==
    /\ pc[t] = "idle"
    /\ Cardinality(outstanding) + Cardinality(Allocating) < limit
    /\ LET args == [LocNone EXCEPT !.item_size = item_size, !.alignment = alignment]
       IN  IF item_size > GB
           THEN /\ pc' = [pc EXCEPT ![t] = "throw_out_of_range"]
                /\ loc' = [loc EXCEPT ![t] = args]
           ELSE IF \/ ~runtime_assert(alignment >= MinAlignment /\ IsPowerOfTwo(alignment))
                   \/ ~runtime_assert(alignment <= MaxAlignment)
           THEN /\ pc' = [pc EXCEPT ![t] = "abort"]
                /\ loc' = [loc EXCEPT ![t] = args]
           ELSE IF alignment < MinAlignment \/ alignment > MaxAlignment
           THEN /\ pc' = [pc EXCEPT ![t] = "throw_invalid_argument"]
                /\ loc' = [loc EXCEPT ![t] = args]
           ELSE LET header_size == headerSize(alignment)
                IN  /\ loc' = [loc EXCEPT ![t] = [args EXCEPT
                                    !.alloc_size = item_size + header_size,
                                    !.header_size = header_size]]
                    /\ pc' = [pc EXCEPT ![t] = "a_pool"]
    /\ UNCHANGED <<pool_lock, slab_lock, slabVars, large_live, header, outstanding, misuse, build>>

PoolAllocateCall(t, item_size, alignment) ==
    PoolAllocateUpTo(t, item_size, alignment, MaxOutstanding)

\* Pool::deallocate up to the scoped_lock: decode the header before item
PoolDeallocateCall(t, item) ==
    /\ pc[t] = "idle"
    /\ item \in Deallocatable
    /\ LET h == HeaderAt(item)
       IN  loc' = [loc EXCEPT ![t] = [LocNone EXCEPT
                        !.alloc_size = DecodeSize(h[2]),
                        !.header_size = h[3],
                        !.ptr = item - h[3],
                        !.user = item]]
    /\ pc' = [pc EXCEPT ![t] = "d_pool"]
    /\ outstanding' = {o \in outstanding :
                            o[1] # item \/ o[3] + 1 < Cardinality({q \in outstanding : q[1] = item})}
    /\ misuse' = (misuse \/ item \notin OutPtrs)
    /\ UNCHANGED <<pool_lock, slab_lock, slabVars, large_live, header, build>>

\* Slab::deallocateItem called directly with a non-null pointer of the
\* caller's choice, up to the scoped_lock
SlabDeallocateCall(t, c, item) ==
    /\ pc[t] = "idle"
    /\ loc' = [loc EXCEPT ![t] = [LocNone EXCEPT !.slab = c, !.ptr = item]]
    /\ pc' = [pc EXCEPT ![t] = "d_slab"]
    /\ misuse' = TRUE
    /\ UNCHANGED <<pool_lock, slab_lock, slabVars, large_live, header, outstanding, build>>

\* nullptr
NullPtr == 0

\* Pool::deallocate is entered with item, a pointer the caller holds or
\* nullptr
PoolDeallocateEnter(t, item) ==
    /\ pc[t] = "idle"
    /\ item \in OutPtrs \cup {NullPtr}
    /\ \A u \in PoolThreads : pc[u] = "d_test" => loc[u].user # item \/ item = NullPtr
    /\ loc' = [loc EXCEPT ![t] = [LocNone EXCEPT !.user = item]]
    /\ pc' = [pc EXCEPT ![t] = "d_test"]
    /\ UNCHANGED <<pool_lock, slab_lock, slabVars, large_live, header, outstanding,
                   misuse, build>>

\* a Pool::deallocate without the test for nullptr: it goes on to read the
\* header and to take the lock
PoolDeallocateNoNullTest(t) ==
    /\ pc[t] = "d_test"
    /\ pc' = [pc EXCEPT ![t] = "d_pool"]
    /\ UNCHANGED <<pool_lock, slab_lock, slabVars, large_live, header, loc, outstanding,
                   misuse, build>>

\* Pool::deallocate: if (item == nullptr) return; otherwise the header is
\* decoded as far as the scoped_lock
PoolDeallocateTest(t) ==
    /\ pc[t] = "d_test"
    /\ IF loc[t].user = NullPtr
       THEN /\ loc' = [loc EXCEPT ![t] = LocNone]
            /\ pc' = [pc EXCEPT ![t] = "idle"]
            /\ UNCHANGED <<outstanding, misuse>>
       ELSE LET item == loc[t].user
                h == HeaderAt(item)
            IN  /\ loc' = [loc EXCEPT ![t] = [LocNone EXCEPT
                                !.alloc_size = DecodeSize(h[2]),
                                !.header_size = h[3],
                                !.ptr = item - h[3],
                                !.user = item]]
                /\ pc' = [pc EXCEPT ![t] = "d_pool"]
                /\ outstanding' = {o \in outstanding : o[1] # item}
                /\ misuse' = (misuse \/ item \notin OutPtrs)
    /\ UNCHANGED <<pool_lock, slab_lock, slabVars, large_live, header, build>>

\* Slab::deallocateItem is entered with item, nullptr or a pointer of the
\* caller's choice
SlabDeallocateEnter(t, c, item) ==
    /\ pc[t] = "idle"
    /\ loc' = [loc EXCEPT ![t] = [LocNone EXCEPT !.slab = c, !.ptr = item]]
    /\ pc' = [pc EXCEPT ![t] = "ds_test"]
    /\ UNCHANGED <<pool_lock, slab_lock, slabVars, large_live, header, outstanding,
                   misuse, build>>

\* Slab::deallocateItem: if (!item) return; otherwise on to the scoped_lock
SlabDeallocateTest(t) ==
    /\ pc[t] = "ds_test"
    /\ IF loc[t].ptr = NullPtr
       THEN /\ loc' = [loc EXCEPT ![t] = LocNone]
            /\ pc' = [pc EXCEPT ![t] = "idle"]
            /\ UNCHANGED misuse
       ELSE /\ pc' = [pc EXCEPT ![t] = "d_slab"]
            /\ misuse' = TRUE
            /\ UNCHANGED loc
    /\ UNCHANGED <<pool_lock, slab_lock, slabVars, large_live, header, outstanding, build>>

\* std::scoped_lock<SpinLock> guard(lock) of Pool::allocate / deallocate
PoolLockAcquire(t) ==
    /\ pc[t] \in {"a_pool", "d_pool"}
    /\ pool_lock = 0
    /\ pool_lock' = t
    /\ pc' = [pc EXCEPT ![t] = IF pc[t] = "a_pool" THEN "a_sel" ELSE "d_sel"]
    /\ UNCHANGED <<slab_lock, slabVars, large_live, header, loc, outstanding, misuse, build>>

\* a selection that keeps the pool lock until the call returns
PoolSelectKeepLock(t) ==
    /\ pc[t] \in {"a_sel", "d_sel"}
    /\ pool_lock = t
    /\ LET slab_index == selectSlab(loc[t].alloc_size)
       IN  /\ loc' = [loc EXCEPT ![t].slab = slab_index]
           /\ pc' = [pc EXCEPT ![t] =
                        IF slab_index # LargeSlab
                        THEN (IF pc[t] = "a_sel" THEN "a_slab" ELSE "d_slab")
                        ELSE (IF pc[t] = "a_sel" THEN "a_large" ELSE "d_large")]
    /\ UNCHANGED <<pool_lock, slab_lock, slabVars, large_live, header, outstanding, misuse, build>>

\* the guarded block of Pool::allocate / deallocate: selectSlab under the
\* pool lock, which the end of the block releases
PoolSelect(t) ==
    /\ pc[t] \in {"a_sel", "d_sel"}
    /\ pool_lock = t
    /\ LET slab_index == selectSlab(loc[t].alloc_size)
       IN  /\ loc' = [loc EXCEPT ![t].slab = slab_index]
           /\ pc' = [pc EXCEPT ![t] =
                        IF slab_index # LargeSlab
                        THEN (IF pc[t] = "a_sel" THEN "a_slab" ELSE "d_slab")
                        ELSE (IF pc[t] = "a_sel" THEN "a_large" ELSE "d_large")]
    /\ pool_lock' = 0
    /\ UNCHANGED <<slab_lock, slabVars, large_live, header, outstanding, misuse, build>>

\* a guard that enters the body without waiting for the lock
SlabLockNoWait(t) ==
    /\ pc[t] \in {"a_slab", "d_slab"}
    /\ slab_lock' = [slab_lock EXCEPT ![loc[t].slab] = t]
    /\ pc' = [pc EXCEPT ![t] = IF pc[t] = "a_slab" THEN "a_item" ELSE "d_item"]
    /\ UNCHANGED <<pool_lock, slabVars, large_live, header, loc, outstanding, misuse, build>>

\* std::scoped_lock<SpinLock> guard(slab_lock) of Slab::allocateItem /
\* deallocateItem
SlabLockAcquire(t) ==
    /\ pc[t] \in {"a_slab", "d_slab"}
    /\ slab_lock[loc[t].slab] = 0
    /\ slab_lock' = [slab_lock EXCEPT ![loc[t].slab] = t]
    /\ pc' = [pc EXCEPT ![t] = IF pc[t] = "a_slab" THEN "a_item" ELSE "d_item"]
    /\ UNCHANGED <<pool_lock, slabVars, large_live, header, loc, outstanding, misuse, build>>

\* the new state of slab c
SlabUpdate(c, st) ==
    /\ slab_data' = [slab_data EXCEPT ![c] = st.data]
    /\ slab_map' = [slab_map EXCEPT ![c] = st.map]
    /\ slab_available_map' = [slab_available_map EXCEPT ![c] = st.avail]
    /\ base_address_map' = [base_address_map EXCEPT ![c] = st.bmap]

\* Slab::allocateItem under the slab lock, up to the return or the throw
\* that releases the lock
AllocateItem(t) ==
    /\ pc[t] = "a_item"
    /\ LET c == loc[t].slab
           choices == NewChunkChoices(c, slab_data[c])
       IN  /\ slab_lock[c] = t
           /\ \E new_slab \in (IF choices = {} THEN {0} ELSE choices) :
                LET r == allocateItemFrom(c, 0, new_slab)
                IN  /\ SlabUpdate(c, r.st)
                    /\ IF r.status = "ok"
                       THEN /\ loc' = [loc EXCEPT ![t].ptr = r.ptr]
                            /\ pc' = [pc EXCEPT ![t] = "a_hdr"]
                       ELSE /\ loc' = [loc EXCEPT ![t] = LocNone]
                            /\ pc' = [pc EXCEPT ![t] = "throw_out_of_range"]
           /\ slab_lock' = [slab_lock EXCEPT ![c] = 0]
    /\ UNCHANGED <<pool_lock, large_live, header, outstanding, misuse, build>>

\* Slab::allocateItem in two steps, the first: the loop up to the free
\* item_index it finds (chunk growth included) or up to the throw
AllocateFind(t) ==
    /\ pc[t] = "a_item"
    /\ LET c == loc[t].slab
           choices == NewChunkChoices(c, slab_data[c])
       IN  \E new_slab \in (IF choices = {} THEN {0} ELSE choices) :
                LET r == allocateItemFrom(c, 0, new_slab)
                    grown == Len(r.st.data) > Len(slab_data[c])
                    slab_index == CHOOSE k \in 0..(Len(r.st.map) - 1) :
                                    k >= Len(slab_map[c]) \/ r.st.map[k + 1] # slab_map[c][k + 1]
                    old_slots == IF grown THEN {} ELSE slab_map[c][slab_index + 1]
                IN  IF r.status = "ok"
                    THEN /\ SlabUpdate(c, [data |-> r.st.data,
                                           map |-> IF grown THEN Append(slab_map[c], {})
                                                   ELSE slab_map[c],
                                           avail |-> slab_available_map[c],
                                           bmap |-> r.st.bmap])
                         /\ loc' = [loc EXCEPT ![t].slab_index = slab_index,
                                               ![t].item_index =
                                    CHOOSE j \in r.st.map[slab_index + 1] : j \notin old_slots]
                         /\ pc' = [pc EXCEPT ![t] = "a_set"]
                         /\ UNCHANGED slab_lock
                    ELSE /\ UNCHANGED slabVars
                         /\ loc' = [loc EXCEPT ![t] = LocNone]
                         /\ pc' = [pc EXCEPT ![t] = "throw_out_of_range"]
                         /\ slab_lock' = [slab_lock EXCEPT ![c] = 0]
    /\ UNCHANGED <<pool_lock, large_live, header, outstanding, misuse, build>>

\* Slab::allocateItem, the second step: slab_slots.set(item_index), the
\* reset of the availability bit of a full chunk, and the return
AllocateSet(t) ==
    /\ pc[t] = "a_set"
    /\ LET c == loc[t].slab
           slab_index == loc[t].slab_index
           slots == slab_map[c][slab_index + 1] \cup {loc[t].item_index}
       IN  /\ slab_map' = [slab_map EXCEPT ![c][slab_index + 1] = slots]
           /\ slab_available_map' = [slab_available_map EXCEPT ![c] =
                    AvailableAfterSet(c, slab_available_map[c], slab_index, slots)]
           /\ loc' = [loc EXCEPT ![t].ptr =
                    slab_data[c][slab_index + 1] + loc[t].item_index * ElemSize(c)]
           /\ slab_lock' = [slab_lock EXCEPT ![c] = 0]
    /\ pc' = [pc EXCEPT ![t] = "a_hdr"]
    /\ UNCHANGED <<pool_lock, slab_data, base_address_map, large_live, header,
                   outstanding, misuse, build>>

\* Slab::deallocateItem in two steps, the first: findSlabForItem, item_index
\* and slab_slots.test(item_index), up to a throw if there is one
DeallocateFind(t) ==
    /\ pc[t] = "d_item"
    /\ LET c == loc[t].slab
           r == deallocateItemBody(c, loc[t].ptr)
           slab_index == findSlabForItem(c, loc[t].ptr)
       IN  IF r.status = "ok"
           THEN /\ loc' = [loc EXCEPT ![t].slab_index = slab_index,
                                      ![t].item_index =
                            (loc[t].ptr - slab_data[c][slab_index + 1]) \div ElemSize(c)]
                /\ pc' = [pc EXCEPT ![t] = "d_reset"]
                /\ UNCHANGED slab_lock
           ELSE /\ loc' = [loc EXCEPT ![t] = LocNone]
                /\ pc' = [pc EXCEPT ![t] = "throw_" \o r.status]
                /\ slab_lock' = [slab_lock EXCEPT ![c] = 0]
    /\ UNCHANGED <<pool_lock, slabVars, large_live, header, outstanding, misuse, build>>

\* Slab::deallocateItem, the second step: slab_slots.reset(item_index),
\* slab_available_map.set(slab_index) and the return
DeallocateReset(t) ==
    /\ pc[t] = "d_reset"
    /\ LET c == loc[t].slab
           slab_index == loc[t].slab_index
       IN  /\ slab_map' = [slab_map EXCEPT ![c][slab_index + 1] = @ \ {loc[t].item_index}]
           /\ slab_available_map' = [slab_available_map EXCEPT ![c] = @ \cup {slab_index}]
           /\ slab_lock' = [slab_lock EXCEPT ![c] = 0]
    /\ loc' = [loc EXCEPT ![t] = LocNone]
    /\ pc' = [pc EXCEPT ![t] = "idle"]
    /\ UNCHANGED <<pool_lock, slab_data, base_address_map, large_live, header,
                   outstanding, misuse, build>>

\* a thread is inside Slab::allocateNewSlab of slab c: it holds the lock,
\* every chunk is full and one more chunk is allowed
Growing(c) ==
    \E u \in PoolThreads :
        /\ pc[u] = "a_item"
        /\ loc[u].slab = c
        /\ Len(slab_data[c]) < max_slabs
        /\ \A i \in 1..Len(slab_map[c]) : slab_map[c][i] = 0..(SlotCount(c) - 1)

\* Slab::getAllocatedMemory() is called on slab c: an inline public member
\* with no scoped_lock
GetAllocatedMemoryCall(t, c) ==
    /\ pc[t] = "idle"
    /\ loc' = [loc EXCEPT ![t] = [LocNone EXCEPT !.slab = c]]
    /\ pc' = [pc EXCEPT ![t] = "g_read"]
    /\ UNCHANGED <<pool_lock, slab_lock, slabVars, large_live, header, outstanding,
                   misuse, build>>

\* return slab_data.size() * slab_alloc_size; a read of the vector that
\* overlaps its push_back is a data race, whose result is any chunk count
GetAllocatedMemoryRead(t) ==
    /\ pc[t] = "g_read"
    /\ LET c == loc[t].slab
       IN  \E n \in (IF Growing(c) THEN 0..max_slabs ELSE {Len(slab_data[c])}) :
                loc' = [loc EXCEPT ![t].alloc_size = n * slab_alloc_size(c)]
    /\ pc' = [pc EXCEPT ![t] = "g_ret"]
    /\ UNCHANGED <<pool_lock, slab_lock, slabVars, large_live, header, outstanding,
                   misuse, build>>

\* Slab::findSlabForItem(item) is called on slab c from outside the class:
\* a public const member with no scoped_lock
FindSlabCall(t, c, item) ==
    /\ pc[t] = "idle"
    /\ loc' = [loc EXCEPT ![t] = [LocNone EXCEPT !.slab = c, !.ptr = item]]
    /\ pc' = [pc EXCEPT ![t] = "f_read"]
    /\ UNCHANGED <<pool_lock, slab_lock, slabVars, large_live, header, outstanding,
                   misuse, build>>

\* the lookup in base_address_map; one that overlaps the insertion of
\* allocateNewSlab is a data race, whose result is any index or nullopt
FindSlabRead(t) ==
    /\ pc[t] = "f_read"
    /\ LET c == loc[t].slab
       IN  \E r \in (IF Growing(c) THEN -1..(max_slabs - 1)
                     ELSE {findSlabForItem(c, loc[t].ptr)}) :
                loc' = [loc EXCEPT ![t].slab_index = r]
    /\ pc' = [pc EXCEPT ![t] = "f_ret"]
    /\ UNCHANGED <<pool_lock, slab_lock, slabVars, large_live, header, outstanding,
                   misuse, build>>

\* getAllocatedMemory or findSlabForItem returns to its caller
AccessReturn(t) ==
    /\ pc[t] \in {"g_ret", "f_ret"}
    /\ loc' = [loc EXCEPT ![t] = LocNone]
    /\ pc' = [pc EXCEPT ![t] = "idle"]
    /\ UNCHANGED <<pool_lock, slab_lock, slabVars, large_live, header, outstanding,
                   misuse, build>>

\* SlabProxy::allocateItem: the two assertions, then operator new; no lock
LargeAllocateItem(t) ==
    /\ pc[t] = "a_large"
    /\ IF \/ ~runtime_assert(loc[t].alloc_size > KB)
          \/ ~runtime_assert(loc[t].alloc_size <= GB)
       THEN /\ pc' = [pc EXCEPT ![t] = "abort"]
            /\ UNCHANGED <<loc, large_live>>
       ELSE IF LargeRegions \ large_live = {}
       THEN /\ pc' = [pc EXCEPT ![t] = "throw_bad_alloc"]
            /\ loc' = [loc EXCEPT ![t] = LocNone]
            /\ UNCHANGED large_live
       ELSE \E item \in LargeRegions \ large_live :
                /\ large_live' = large_live \cup {item}
                /\ loc' = [loc EXCEPT ![t].ptr = item]
                /\ pc' = [pc EXCEPT ![t] = "a_hdr"]
    /\ UNCHANGED <<pool_lock, slab_lock, slabVars, header, outstanding, misuse, build>>

\* the headers still intact once [ptr + header_size - 5, ptr + alloc_size)
\* belongs to a new allocation
IntactAfter(ptr, header_size, alloc_size) ==
    {e \in header : e[1] <= ptr + header_size - 5 \/ e[1] - 5 >= ptr + alloc_size}

\* Pool::allocate after allocateItem: write alloc_size and header_size in
\* front of the user pointer and return it
WriteHeader(t) ==
    /\ pc[t] = "a_hdr"
    /\ LET l == loc[t]
           user == l.ptr + l.header_size
       IN  /\ header' = IntactAfter(l.ptr, l.header_size, l.alloc_size)
                            \cup {<<user, EncodeSize(l.alloc_size),
                                      EncodeHeaderSize(l.header_size)>>}
           /\ outstanding' = outstanding \cup
                    {<<user, l.item_size,
                       Cardinality({o \in outstanding : o[1] = user}),
                       l.header_size, l.slab, l.ptr, l.alignment>>}
    /\ loc' = [loc EXCEPT ![t] = LocNone]
    /\ pc' = [pc EXCEPT ![t] = "idle"]
    /\ UNCHANGED <<pool_lock, slab_lock, slabVars, large_live, misuse, build>>

\* a deallocateItem whose throw leaves the slab lock held: a lock()/unlock()
\* pair in place of the scoped_lock
DeallocateItemKeepLock(t) ==
    /\ pc[t] = "d_item"
    /\ LET c == loc[t].slab
           r == deallocateItemBody(c, loc[t].ptr)
       IN  /\ slab_lock[c] = t
           /\ SlabUpdate(c, r.st)
           /\ pc' = [pc EXCEPT ![t] =
                        IF r.status = "ok" THEN "idle" ELSE "throw_" \o r.status]
           /\ slab_lock' = [slab_lock EXCEPT ![c] = IF r.status = "ok" THEN 0 ELSE t]
    /\ loc' = [loc EXCEPT ![t] = LocNone]
    /\ UNCHANGED <<pool_lock, large_live, header, outstanding, misuse, build>>

\* Slab::deallocateItem under the slab lock, up to the return or the throw
\* that releases the lock
DeallocateItem(t) ==
    /\ pc[t] = "d_item"
    /\ LET c == loc[t].slab
           r == deallocateItemBody(c, loc[t].ptr)
       IN  /\ slab_lock[c] = t
           /\ SlabUpdate(c, r.st)
           /\ pc' = [pc EXCEPT ![t] =
                        IF r.status = "ok" THEN "idle" ELSE "throw_" \o r.status]
           /\ slab_lock' = [slab_lock EXCEPT ![c] = 0]
    /\ loc' = [loc EXCEPT ![t] = LocNone]
    /\ UNCHANGED <<pool_lock, large_live, header, outstanding, misuse, build>>

\* SlabProxy::deallocateItem: delete[] item
LargeDeallocateItem(t) ==
    /\ pc[t] = "d_large"
    /\ large_live' = large_live \ {loc[t].ptr}
    /\ header' = {e \in header : e[1] # loc[t].user}
    /\ loc' = [loc EXCEPT ![t] = LocNone]
    /\ pc' = [pc EXCEPT ![t] = "idle"]
    /\ UNCHANGED <<pool_lock, slab_lock, slabVars, outstanding, misuse, build>>

\* the exception reaches the caller
Thrown(t) ==
    /\ pc[t] \in {"throw_invalid_argument", "throw_out_of_range", "throw_bad_alloc"}
    /\ pc' = [pc EXCEPT ![t] = "idle"]
    /\ loc' = [loc EXCEPT ![t] = LocNone]
    /\ UNCHANGED <<pool_lock, slab_lock, slabVars, large_live, header,
                   outstanding, misuse, build>>

\* the steps inside a running call
PoolProgress(t) ==
    \/ PoolLockAcquire(t)
    \/ PoolSelect(t)
    \/ SlabLockAcquire(t)
    \/ AllocateItem(t)
    \/ LargeAllocateItem(t)
    \/ WriteHeader(t)
    \/ DeallocateItem(t)
    \/ LargeDeallocateItem(t)
    \/ Thrown(t)

(***************************************************************************)
(* LifetimeObserver                                                        *)
(*                                                                         *)
(* Handles are LifetimeObserver objects (the base subobject of the class   *)
(* that inherits it), numbered in the order of their construction.         *)
(* ControlBlocks are numbered in the order operator new returns them.  A   *)
(* deleted ControlBlock is freed memory: a read of its counts may yield    *)
(* any value, a write to it is lost.                                       *)
(***************************************************************************)
Handles == 1..MaxHandles
Blocks == 1..MaxBlocks

\* the state of all ControlBlocks
Store == [state |-> block_state, oc |-> owner_count, bc |-> observer_count,
          del |-> deletes]

SetStore(s) ==
    /\ block_state' = s.state
    /\ owner_count' = s.oc
    /\ observer_count' = s.bc
    /\ deletes' = s.del

LOInit ==
    /\ h_state = [h \in Handles |-> "unborn"]
    /\ control_block = [h \in Handles |-> 0]
    /\ my_ownership = [h \in Handles |-> "owner"]
    /\ block_state = [b \in Blocks |-> "unalloc"]
    /\ owner_count = [b \in Blocks |-> 0]
    /\ observer_count = [b \in Blocks |-> 0]
    /\ deletes = [b \in Blocks |-> 0]
    /\ observed = [h \in Handles |-> 0]

\* no LifetimeObserver exists
LOParked ==
    /\ h_state = <<>>
    /\ control_block = <<>>
    /\ my_ownership = <<>>
    /\ block_state = <<>>
    /\ owner_count = <<>>
    /\ observer_count = <<>>
    /\ deletes = <<>>
    /\ observed = <<>>

Live(h) == h_state[h] = "live"

\* the object the next constructor call builds
HasUnborn == \E h \in Handles : h_state[h] = "unborn"
NextHandle == SetMin({h \in Handles : h_state[h] = "unborn"})

\* the block the next new ControlBlock returns
HasFresh == \E b \in Blocks : block_state[b] = "unalloc"
FreshBlock == SetMin({b \in Blocks : block_state[b] = "unalloc"})

\* new ControlBlock(e_refType::owner): ControlBlock(ref_type) calls addRef
newControlBlock(s, b) ==
    [s EXCEPT !.state[b] = "live", !.oc[b] = 1, !.bc[b] = 0]

\* ControlBlock::addRef
addRef(s, b, ref_type) ==
    IF s.state[b] # "live" THEN s
    ELSE IF ref_type = "owner" THEN [s EXCEPT !.oc[b] = @ + 1]
    ELSE [s EXCEPT !.bc[b] = @ + 1]

\* ControlBlock::releaseRef
releaseRef(s, b, ref_type) ==
    IF s.state[b] # "live" THEN s
    ELSE IF ref_type = "owner" THEN [s EXCEPT !.oc[b] = @ - 1]
    ELSE [s EXCEPT !.bc[b] = @ - 1]

\* delete control_block; the second delete of a block is a double free
deleteControlBlock(s, b) ==
    [s EXCEPT !.state[b] = "deleted",
              !.del[b] = IF @ < 2 THEN @ + 1 ELSE @]

\* the values a count of freed memory may be read as
FreedCounts == {-1, 0, 1}

\* ControlBlock::getCount: the values the call may return
getCount(s, b, ref_type) ==
    IF s.state[b] # "live" THEN FreedCounts
    ELSE IF ref_type = "owner" THEN {s.oc[b]}
    ELSE {s.bc[b]}

\* what getCount(owner) == 0 && getCount(observer) == 0 may evaluate to
BothZero(s, b) ==
    IF s.state[b] = "live" THEN {s.oc[b] = 0 /\ s.bc[b] = 0} ELSE BOOLEAN

\* releaseRef(my_ownership), then delete control_block if both counts read
\* 0: the destructor's body and the first half of reset
releaseAndDelete(s, b, ref_type) ==
    LET r == releaseRef(s, b, ref_type)
    IN  {IF z THEN deleteControlBlock(r, b) ELSE r : z \in BothZero(r, b)}

\* LifetimeObserver::isAlive: the values the call may return
isAlive(h) ==
    LET b == control_block[h]
    IN  IF block_state[b] = "live" THEN {owner_count[b] > 0} ELSE BOOLEAN

\* LifetimeObserver(): a new block owned by the new handle
Construct ==
    /\ HasUnborn /\ HasFresh
    /\ LET n == NextHandle
           b == FreshBlock
       IN  /\ h_state' = [h_state EXCEPT ![n] = "live"]
           /\ control_block' = [control_block EXCEPT ![n] = b]
           /\ my_ownership' = [my_ownership EXCEPT ![n] = "owner"]
           /\ SetStore(newControlBlock(Store, b))
    /\ UNCHANGED observed

\* LifetimeObserver(const LifetimeObserver& other, e_refType ref_type)
CopyConstructAs(other, ref_type, obs) ==
    /\ HasUnborn
    /\ Live(other)
    /\ ref_type = "owner" => HasFresh
    /\ LET n == NextHandle
       IN  /\ h_state' = [h_state EXCEPT ![n] = "live"]
           /\ my_ownership' = [my_ownership EXCEPT ![n] = ref_type]
           /\ observed' = [observed EXCEPT ![n] = obs]
           /\ IF ref_type = "owner"
              THEN /\ control_block' = [control_block EXCEPT ![n] = FreshBlock]
                   /\ SetStore(newControlBlock(Store, FreshBlock))
              ELSE /\ control_block' = [control_block EXCEPT ![n] = control_block[other]]
                   /\ SetStore(addRef(Store, control_block[other], "observer"))

CopyConstruct(other, ref_type) == CopyConstructAs(other, ref_type, 0)

\* explicit LifetimeObserver(const LifetimeObserver& other): an observer copy
CopyObserver(other) ==
    /\ HasUnborn
    /\ Live(other)
    /\ LET n == NextHandle
       IN  /\ h_state' = [h_state EXCEPT ![n] = "live"]
           /\ control_block' = [control_block EXCEPT ![n] = control_block[other]]
           /\ my_ownership' = [my_ownership EXCEPT ![n] = "observer"]
           /\ SetStore(addRef(Store, control_block[other], "observer"))
    /\ UNCHANGED observed

\* getObserver(): LifetimeObserver(*this, e_refType::observer), returned to
\* the caller; the result is recorded as the observer of this object when
\* this is an owner
getObserver(this) ==
    CopyConstructAs(this, "observer",
                    IF my_ownership[this] = "owner" THEN this ELSE 0)

\* a reset that shares the block of other whatever ref_type is
resetShared(this, other, ref_type) ==
    /\ Live(this) /\ Live(other)
    /\ IF this = other \/ control_block[this] = control_block[other]
       THEN UNCHANGED loVars
       ELSE /\ ref_type = "owner" => HasFresh
            /\ \E r \in releaseAndDelete(Store, control_block[this], my_ownership[this]) :
                    /\ control_block' = [control_block EXCEPT ![this] = control_block[other]]
                    /\ SetStore(addRef(r, control_block[other], ref_type))
            /\ my_ownership' = [my_ownership EXCEPT ![this] = ref_type]
            /\ observed' = [observed EXCEPT ![this] = 0]
            /\ UNCHANGED h_state

\* reset(other, ref_type)
reset(this, other, ref_type) ==
    /\ Live(this) /\ Live(other)
    /\ IF this = other \/ control_block[this] = control_block[other]
       THEN UNCHANGED loVars
       ELSE /\ ref_type = "owner" => HasFresh
            /\ \E r \in releaseAndDelete(Store, control_block[this], my_ownership[this]) :
                    IF ref_type = "owner"
                    THEN /\ control_block' = [control_block EXCEPT ![this] = FreshBlock]
                         /\ SetStore(newControlBlock(r, FreshBlock))
                    ELSE /\ control_block' = [control_block EXCEPT ![this] = control_block[other]]
                         /\ SetStore(addRef(r, control_block[other], "observer"))
            /\ my_ownership' = [my_ownership EXCEPT ![this] = ref_type]
            /\ observed' = [observed EXCEPT ![this] = 0]
            /\ UNCHANGED h_state

\* operator=(const LifetimeObserver& other)
CopyAssign(this, other) == reset(this, other, "owner")

\* LifetimeObserver(LifetimeObserver&& other)
MoveConstruct(other) ==
    /\ HasUnborn /\ HasFresh
    /\ Live(other)
    /\ LET n == NextHandle
       IN  /\ h_state' = [h_state EXCEPT ![n] = "live"]
           /\ control_block' = [control_block EXCEPT
                                    ![n] = control_block[other],
                                    ![other] = FreshBlock]
           /\ my_ownership' = [my_ownership EXCEPT
                                    ![n] = my_ownership[other],
                                    ![other] = "owner"]
           /\ SetStore(newControlBlock(Store, FreshBlock))
           /\ observed' = [observed EXCEPT ![n] = 0, ![other] = 0]

\* operator=(LifetimeObserver&& other)
MoveAssign(this, other) ==
    /\ Live(this) /\ Live(other)
    /\ IF this = other
       THEN UNCHANGED loVars
       ELSE /\ HasFresh
            /\ SetStore(newControlBlock(deleteControlBlock(Store, control_block[this]),
                                        FreshBlock))
            /\ control_block' = [control_block EXCEPT
                                    ![this] = control_block[other],
                                    ![other] = FreshBlock]
            /\ my_ownership' = [my_ownership EXCEPT
                                    ![this] = my_ownership[other],
                                    ![other] = "owner"]
            /\ observed' = [observed EXCEPT ![this] = 0, ![other] = 0]
            /\ UNCHANGED h_state

\* ~LifetimeObserver()
Destroy(this) ==
    /\ Live(this)
    /\ \E r \in releaseAndDelete(Store, control_block[this], my_ownership[this]) :
            SetStore(r)
    /\ h_state' = [h_state EXCEPT ![this] = "dead"]
    /\ control_block' = [control_block EXCEPT ![this] = 0]
    /\ my_ownership' = [my_ownership EXCEPT ![this] = "owner"]
    /\ observed' = [observed EXCEPT ![this] = 0]

RefTypes == {"owner", "observer"}

NextLO ==
    /\ \/ Construct
       \/ \E other \in Handles : CopyObserver(other)
       \/ \E other \in Handles, ref_type \in RefTypes : CopyConstruct(other, ref_type)
       \/ \E this \in Handles : getObserver(this)
       \/ \E this, other \in Handles, ref_type \in RefTypes : reset(this, other, ref_type)
       \/ \E this, other \in Handles : CopyAssign(this, other)
       \/ \E other \in Handles : MoveConstruct(other)
       \/ \E this, other \in Handles : MoveAssign(this, other)
       \/ \E this \in Handles : Destroy(this)
    /\ UNCHANGED <<lockVars, poolVars, selVars, auxVars>>

(***************************************************************************)
(* Pool::selectSlab as Pool::allocate calls it                             *)
(***************************************************************************)
\* the alignments Pool::allocate serves in either build
ServedAlignments == {4, 8, 16}

\* a request about to reach the guarded block of Pool::allocate
SelInit ==
    /\ sel_item_size \in 0..MaxUserBytes
    /\ sel_alignment \in ServedAlignments
    /\ sel_slab_index = NullSlab

\* no request
SelParked ==
    /\ sel_item_size = 0
    /\ sel_alignment = 0
    /\ sel_slab_index = NullSlab

\* auto slab_index = selectSlab(alloc_size)
SelectCall ==
    /\ sel_slab_index = NullSlab
    /\ sel_slab_index' = selectSlab(sel_item_size + headerSize(sel_alignment))
    /\ UNCHANGED <<sel_item_size, sel_alignment>>

(***************************************************************************)
(* Specifications                                                          *)
(***************************************************************************)
\* one class selection for each request
(***************************************************************************)
(* Memory ordering of the SpinLock's atomic operations                     *)
(***************************************************************************)
MMInit ==
    /\ hb = [t \in LockThreads |-> {}]
    /\ flag_view = {}
    /\ cs_writes = {}

\* no access has been made
MMParked ==
    /\ hb = <<>>
    /\ flag_view = {}
    /\ cs_writes = {}

\* no thread works on a LifetimeObserver
CCParked ==
    /\ lo_pc = <<>>
    /\ lo_tmp = <<>>
    /\ lo_this = <<>>
    /\ lo_new = <<>>
    /\ lo_holder = <<>>

(***************************************************************************)
(* make_pool_unique<T[]> and PoolDeleter<T[]>                              *)
(***************************************************************************)
UniqueHandles == 1..MaxUniqueHandles
ElemIndexes == 0..(MaxElems - 1)

\* the array pointer of the model, and the null pointer of a unique_ptr
ArrayPtr == 1
NoArray == 0

ArrInit ==
    /\ arr_pc = "idle"
    /\ arr_n = 0
    /\ arr_i = 0
    /\ arr_cur = 0
    /\ elem = [i \in ElemIndexes |-> "raw"]
    /\ destroy_log = <<>>
    /\ pool_block = "free"
    /\ uh_state = [h \in UniqueHandles |-> "none"]
    /\ uh_ptr = [h \in UniqueHandles |-> NoArray]
    /\ uh_size = [h \in UniqueHandles |-> 0]

\* no array is made
ArrParked ==
    /\ arr_pc = "idle"
    /\ arr_n = 0
    /\ arr_i = 0
    /\ arr_cur = 0
    /\ elem = <<>>
    /\ destroy_log = <<>>
    /\ pool_block = "free"
    /\ uh_state = <<>>
    /\ uh_ptr = <<>>
    /\ uh_size = <<>>

\* make_pool_unique<T[]>(pool, size): pool.allocate(array_size, alignment)
MakePoolUnique(size) ==
    /\ arr_pc = "idle"
    /\ pool_block = "free"
    /\ pool_block' = "allocated"
    /\ arr_n' = size
    /\ arr_i' = 0
    /\ arr_pc' = "construct"
    /\ UNCHANGED <<arr_cur, elem, destroy_log, uh_state, uh_ptr, uh_size>>

\* make_pool_unique<T[]>: new (&array_ptr[i]) ElementType(), ++i
ConstructElem ==
    /\ arr_pc = "construct"
    /\ arr_i < arr_n
    /\ elem' = [elem EXCEPT ![arr_i] = "alive"]
    /\ arr_i' = arr_i + 1
    /\ UNCHANGED <<arr_pc, arr_n, arr_cur, destroy_log, pool_block, uh_state, uh_ptr, uh_size>>

\* make_pool_unique<T[]>: return unique_pool_ptr<T>(array_ptr,
\* PoolDeleter<T>{pool, size})
ReturnHandle ==
    /\ arr_pc = "construct"
    /\ arr_i >= arr_n
    /\ uh_state' = [uh_state EXCEPT ![1] = "live"]
    /\ uh_ptr' = [uh_ptr EXCEPT ![1] = ArrayPtr]
    /\ uh_size' = [uh_size EXCEPT ![1] = arr_n]
    /\ arr_pc' = "idle"
    /\ arr_i' = 0
    /\ UNCHANGED <<arr_n, arr_cur, elem, destroy_log, pool_block>>

\* unique_pool_ptr<T[]> b(std::move(a)): b takes the pointer and the
\* deleter, a is left null
MoveHandle(a, b) ==
    /\ arr_pc = "idle"
    /\ uh_state[a] = "live" /\ uh_state[b] = "none"
    /\ uh_state' = [uh_state EXCEPT ![b] = "live"]
    /\ uh_ptr' = [uh_ptr EXCEPT ![b] = uh_ptr[a], ![a] = NoArray]
    /\ uh_size' = [uh_size EXCEPT ![b] = uh_size[a]]
    /\ UNCHANGED <<arr_pc, arr_n, arr_i, arr_cur, elem, destroy_log, pool_block>>

\* ~unique_ptr: the deleter is called if the pointer is not null;
\* PoolDeleter<T[]>::operator(): if (p), views::counted(p, size) | reverse
DropHandle(h) ==
    /\ arr_pc = "idle"
    /\ uh_state[h] = "live"
    /\ IF uh_ptr[h] # NoArray
       THEN /\ arr_pc' = "destroy"
            /\ arr_cur' = h
            /\ arr_i' = uh_size[h]
            /\ UNCHANGED uh_state
       ELSE /\ uh_state' = [uh_state EXCEPT ![h] = "dropped"]
            /\ UNCHANGED <<arr_pc, arr_cur, arr_i>>
    /\ UNCHANGED <<arr_n, elem, destroy_log, pool_block, uh_ptr, uh_size>>

\* elem.~T() applied to the element the deleter's loop has reached
DestroyAt(i) ==
    /\ elem' = [elem EXCEPT ![i] = IF @ = "alive" THEN "destroyed" ELSE "misused"]
    /\ destroy_log' = Append(destroy_log, i)
    /\ arr_i' = arr_i - 1
    /\ UNCHANGED <<arr_pc, arr_n, arr_cur, pool_block, uh_state, uh_ptr, uh_size>>

\* a deleter that walks the elements from index 0 upwards
DestroyElemForward ==
    /\ arr_pc = "destroy"
    /\ arr_i > 0
    /\ DestroyAt(uh_size[arr_cur] - arr_i)

\* PoolDeleter<T[]>::operator(): one round of for_each over the reversed
\* view, [](T& elem){ elem.~T(); }
DestroyElem ==
    /\ arr_pc = "destroy"
    /\ arr_i > 0
    /\ DestroyAt(arr_i - 1)

\* PoolDeleter<T[]>::operator(): pool.deallocate(p), and the end of
\* ~unique_ptr
DeleterDeallocate ==
    /\ arr_pc = "destroy"
    /\ arr_i = 0
    /\ pool_block' = IF pool_block = "allocated" THEN "returned" ELSE "misused"
    /\ uh_state' = [uh_state EXCEPT ![arr_cur] = "dropped"]
    /\ uh_ptr' = [uh_ptr EXCEPT ![arr_cur] = NoArray]
    /\ arr_pc' = "idle"
    /\ arr_cur' = 0
    /\ UNCHANGED <<arr_n, arr_i, elem, destroy_log, uh_size>>

\* no Slab is watched
HistParked == peak = <<>> /\ trail = <<>>

AuxParked == MMParked /\ CCParked /\ ArrParked /\ HistParked

\* a test_and_set with memory_order_relaxed: it synchronizes with nothing
test_and_set_relaxed(t) == UNCHANGED mmVars

\* lock_flag.test_and_set(std::memory_order_acquire): a read-modify-write;
\* it reads the last value in the flag's modification order, which is the
\* release store of clear() or a read-modify-write that continues its
\* release sequence, and so synchronizes with that clear()
test_and_set_acquire(t) ==
    /\ hb' = [hb EXCEPT ![t] = @ \cup flag_view]
    /\ UNCHANGED <<flag_view, cs_writes>>

\* lock_flag.clear(std::memory_order_release): heads a new release sequence
\* carrying everything that happens before the clear
clear_release(t) ==
    /\ flag_view' = hb[t]
    /\ UNCHANGED <<hb, cs_writes>>

\* the write of ++counter inside the critical section, named by its thread
\* and round
cs_store(t) ==
    /\ hb' = [hb EXCEPT ![t] = @ \cup {<<t, iters[t]>>}]
    /\ cs_writes' = cs_writes \cup {<<t, iters[t]>>}
    /\ UNCHANGED flag_view

\* the ordering effect of the step thread t takes from its position:
\* lock_flag.test(relaxed), wait(true, relaxed), yield, sleep_for and
\* notify_one order nothing
MemoryOrder(t) ==
    IF sl_pc[t] \in {"tas", "try_tas"} THEN test_and_set_acquire(t)
    ELSE IF sl_pc[t] = "unlock" THEN clear_release(t)
    ELSE IF sl_pc[t] = "cs_write" THEN cs_store(t)
    ELSE UNCHANGED mmVars

NextSelect == SelectCall /\ UNCHANGED <<lockVars, poolVars, loVars, auxVars>>

SelSpecInit == SelInit /\ LockParked /\ PoolParked /\ LOParked /\ AuxParked

SpecSelect == SelSpecInit /\ [][NextSelect]_vars

\* threads using one Pool as its contract asks: every pointer passed to
\* deallocate is one the caller holds
NextPool ==
    /\ \E t \in PoolThreads :
            \/ \E item_size \in ItemSizes : PoolAllocateCall(t, item_size, DefaultAlignment)
            \/ \E item \in OutPtrs : PoolDeallocateCall(t, item)
            \/ PoolProgress(t)
    /\ UNCHANGED <<lockVars, loVars, selVars, auxVars>>

\* one thread using the Pool and its Slabs in any way, double frees and
\* pointers of the caller's invention included
NextSlab ==
    /\ \/ \E item_size \in {700, 2000}, alignment \in Alignments :
                PoolAllocateCall(1, item_size, alignment)
       \/ \E item \in Deallocatable : PoolDeallocateCall(1, item)
       \/ \E item \in ProbePtrs(ProbedClass) :
                SlabDeallocateCall(1, ProbedClass, item)
       \/ PoolProgress(1)
    /\ UNCHANGED <<lockVars, loVars, selVars, auxVars>>

\* the requests of NextPool and NextSlab pass every runtime_assert, so that
\* the two builds run alike
PoolSpecInit == PoolInit /\ build = "release" /\ LockParked /\ LOParked /\ SelParked /\ AuxParked

SpecPool == PoolSpecInit /\ [][NextPool]_vars

SpecSlab == PoolSpecInit /\ [][NextSlab]_vars

\* the requests of one caller who frees only what it holds: served by a
\* Slab, served by SlabProxy, around the 1_GB limit, and with alignments the
\* Pool supports and ones it does not
RequestSizes == {700, 2000, GB - 4, GB + 1}
RequestAlignments == {2, 4, 8, 12, 16, 32}

NextAlign ==
    /\ \/ \E item_size \in RequestSizes, alignment \in RequestAlignments :
                PoolAllocateCall(1, item_size, alignment)
       \/ \E item \in OutPtrs : PoolDeallocateCall(1, item)
       \/ PoolProgress(1)
    /\ UNCHANGED <<lockVars, loVars, selVars, auxVars>>

\* one more request than the slab of ProbedClass has slots at its cap
CapLimit == max_slabs * SlotCount(ProbedClass) + 1

\* one caller filling one Slab through the Pool and freeing what it holds
NextCap ==
    /\ \/ PoolAllocateUpTo(1, 700, DefaultAlignment, CapLimit)
       \/ \E item \in OutPtrs : PoolDeallocateCall(1, item)
       \/ PoolLockAcquire(1)
       \/ PoolSelect(1)
       \/ SlabLockAcquire(1)
       \/ AllocateItem(1)
       \/ WriteHeader(1)
       \/ DeallocateItem(1)
       \/ Thrown(1)
    /\ UNCHANGED <<lockVars, loVars, selVars, auxVars>>

SpecCap == PoolSpecInit /\ [][NextCap]_vars

\* threads allocating from and freeing to one Slab through the Pool, the
\* body of each Slab operation taken in two steps
NextLin ==
    /\ \E t \in PoolThreads :
            \/ PoolAllocateUpTo(t, 700, DefaultAlignment, CapLimit)
            \/ \E item \in OutPtrs : PoolDeallocateCall(t, item)
            \/ PoolLockAcquire(t)
            \/ PoolSelect(t)
            \/ SlabLockAcquire(t)
            \/ AllocateFind(t)
            \/ AllocateSet(t)
            \/ WriteHeader(t)
            \/ DeallocateFind(t)
            \/ DeallocateReset(t)
            \/ Thrown(t)
    /\ UNCHANGED <<lockVars, loVars, selVars, auxVars>>

SpecLin == PoolSpecInit /\ [][NextLin]_vars

\* threads whose calls can fail: allocations up to one beyond the cap of the
\* slab, frees of held and of already freed pointers, and a pointer of no
\* chunk handed to Slab::deallocateItem
NextFail ==
    /\ \E t \in PoolThreads :
            \/ PoolAllocateUpTo(t, 700, DefaultAlignment, CapLimit)
            \/ \E item \in Deallocatable : PoolDeallocateCall(t, item)
            \/ SlabDeallocateCall(t, ProbedClass, 16)
            \/ PoolLockAcquire(t)
            \/ PoolSelect(t)
            \/ SlabLockAcquire(t)
            \/ AllocateItem(t)
            \/ WriteHeader(t)
            \/ DeallocateItem(t)
            \/ Thrown(t)
    /\ UNCHANGED <<lockVars, loVars, selVars, auxVars>>

SpecFail == PoolSpecInit /\ [][NextFail]_vars

\* threads using every public operation of one Slab: allocateItem and
\* deallocateItem through the Pool, their bodies taken in two steps, and
\* getAllocatedMemory and findSlabForItem called on the Slab itself
NextAccess ==
    /\ \E t \in PoolThreads :
            \/ PoolAllocateUpTo(t, 700, DefaultAlignment, CapLimit)
            \/ \E item \in OutPtrs : PoolDeallocateCall(t, item)
            \/ PoolLockAcquire(t)
            \/ PoolSelect(t)
            \/ SlabLockAcquire(t)
            \/ AllocateFind(t)
            \/ AllocateSet(t)
            \/ WriteHeader(t)
            \/ DeallocateFind(t)
            \/ DeallocateReset(t)
            \/ Thrown(t)
            \/ GetAllocatedMemoryCall(t, ProbedClass)
            \/ GetAllocatedMemoryRead(t)
            \/ \E item \in {o[6] : o \in outstanding} : FindSlabCall(t, ProbedClass, item)
            \/ FindSlabRead(t)
            \/ AccessReturn(t)
    /\ UNCHANGED <<lockVars, loVars, selVars, auxVars>>

SpecAccess == PoolSpecInit /\ [][NextAccess]_vars

\* bits set in the occupancy bitmaps map of slab c
BitsSet(c, map) ==
    Cardinality({<<k, j>> \in (1..Len(map)) \X (0..(SlotCount(c) - 1)) :
                    j \in map[k]})

\* threads filling one Slab through the Pool and freeing what they hold,
\* while the largest number of slots in use at a time is recorded
NextPeak ==
    /\ \E t \in PoolThreads :
            \/ PoolAllocateUpTo(t, 700, DefaultAlignment, CapLimit)
            \/ \E item \in OutPtrs : PoolDeallocateCall(t, item)
            \/ PoolLockAcquire(t)
            \/ PoolSelect(t)
            \/ SlabLockAcquire(t)
            \/ AllocateItem(t)
            \/ WriteHeader(t)
            \/ DeallocateItem(t)
            \/ Thrown(t)
    /\ peak' = [c \in ModelClasses |->
                    IF BitsSet(c, slab_map'[c]) > peak[c]
                    THEN BitsSet(c, slab_map'[c]) ELSE peak[c]]
    /\ UNCHANGED <<lockVars, loVars, selVars, mmVars, ccVars, arrVars, trail>>

PeakSpecInit ==
    /\ PoolInit /\ build = "release" /\ LockParked /\ LOParked /\ SelParked
    /\ MMParked /\ CCParked /\ ArrParked
    /\ peak = [c \in ModelClasses |-> 0]
    /\ trail = <<>>

SpecPeak == PeakSpecInit /\ [][NextPeak]_vars

\* operations remembered in a row
TrailLen == 3

\* the trail with one more operation, the oldest dropped
Remember(op, ptr) ==
    LET all == Append(trail, <<op, ptr>>)
    IN  IF Len(all) > TrailLen THEN Tail(all) ELSE all

\* one caller filling one Slab through the Pool and freeing what it holds,
\* the Slab operations that succeed in a row being recorded
NextFit ==
    /\ \/ PoolAllocateUpTo(1, 700, DefaultAlignment, CapLimit)
       \/ \E item \in OutPtrs : PoolDeallocateCall(1, item)
       \/ PoolLockAcquire(1)
       \/ PoolSelect(1)
       \/ SlabLockAcquire(1)
       \/ AllocateItem(1)
       \/ WriteHeader(1)
       \/ DeallocateItem(1)
       \/ Thrown(1)
    /\ trail' = IF pc[1] = "a_item" /\ pc'[1] = "a_hdr"
                    THEN Remember("allocate", loc'[1].ptr)
                ELSE IF pc[1] = "d_item" /\ pc'[1] = "idle"
                    THEN Remember("deallocate", loc[1].ptr)
                ELSE IF pc[1] \in {"a_item", "d_item"} THEN <<>>
                ELSE trail
    /\ UNCHANGED <<lockVars, loVars, selVars, mmVars, ccVars, arrVars, peak>>

FitSpecInit ==
    /\ PoolInit /\ build = "release" /\ LockParked /\ LOParked /\ SelParked
    /\ MMParked /\ CCParked /\ ArrParked
    /\ peak = <<>>
    /\ trail = <<>>

SpecFit == FitSpecInit /\ [][NextFit]_vars

\* pointers outside every chunk and nullptr, handed to Slab::deallocateItem
StrayPtrs == {NullPtr, 16}

\* threads that allocate, free what they hold, and also pass nullptr and
\* stray pointers to Pool::deallocate and Slab::deallocateItem
NextNull ==
    /\ \E t \in PoolThreads :
            \/ \E item_size \in {700, 2000} :
                    PoolAllocateCall(t, item_size, DefaultAlignment)
            \/ \E item \in OutPtrs \cup {NullPtr} : PoolDeallocateEnter(t, item)
            \/ PoolDeallocateTest(t)
            \/ \E item \in StrayPtrs : SlabDeallocateEnter(t, ProbedClass, item)
            \/ SlabDeallocateTest(t)
            \/ PoolProgress(t)
    /\ UNCHANGED <<lockVars, loVars, selVars, auxVars>>

SpecNull == PoolSpecInit /\ [][NextNull]_vars

\* either build of the library
AlignSpecInit == PoolInit /\ LockParked /\ LOParked /\ SelParked /\ AuxParked

SpecAlign == AlignSpecInit /\ [][NextAlign]_vars

NextLock ==
    /\ \E t \in LockThreads :
            \/ LockCall(t)
            \/ TryLockCall(t)
            \/ SpuriousWake(t)
            \/ LockProgress(t)
    /\ UNCHANGED <<poolVars, loVars, selVars, auxVars>>

\* threads that call lock() and unlock() any number of times
NextLockLoop ==
    /\ \E t \in LockThreads :
            \/ LockEnter(t)
            \/ SpuriousWake(t)
            \/ LoopProgress(t)
    /\ UNCHANGED <<poolVars, loVars, selVars, auxVars>>

LockSpecInit == LockInit /\ PoolParked /\ LOParked /\ SelParked /\ AuxParked

SpecLock == LockSpecInit /\ [][NextLock]_vars

\* one thread calls lock() with every draw of dist{1, 100} and the source's
\* ten backoff sleeps, while the other threads take the lock with try_lock()
\* and hold it for as long as they like
BackoffCaller == CHOOSE t \in LockThreads : \A u \in LockThreads : t <= u

NextBackoff ==
    /\ \/ LockEnterFrom(BackoffCaller, DistMin..DistMax) /\ iters[BackoffCaller] < Increments
       \/ LockSpin(BackoffCaller)
       \/ LockTASUpTo(BackoffCaller, MaxBackoffs)
       \/ LockSleep(BackoffCaller)
       \/ LockWait(BackoffCaller)
       \/ SpuriousWake(BackoffCaller)
       \/ \E t \in LockThreads \ {BackoffCaller} :
                \/ TryLockCall(t)
                \/ TryLockTest(t)
                \/ TryLockTAS(t)
       \/ \E t \in LockThreads :
                \/ Hold(t)
                \/ UnlockClear(t)
                \/ UnlockNotify(t)
    /\ UNCHANGED <<poolVars, loVars, selVars, auxVars>>

SpecBackoff == LockSpecInit /\ [][NextBackoff]_vars

\* every thread keeps being scheduled; nothing obliges a thread to call
\* lock(), and no spurious wake-up is ever guaranteed
SpecLockFair ==
    SpecLock /\ \A t \in LockThreads : WF_vars(LockProgress(t) /\ UNCHANGED <<poolVars, loVars, selVars, auxVars>>)

\* every thread keeps being scheduled, and every holder unlocks
SpecLockLoopFair ==
    /\ LockSpecInit
    /\ [][NextLockLoop]_vars
    /\ \A t \in LockThreads :
            WF_vars(LoopProgress(t) /\ UNCHANGED <<poolVars, loVars, selVars, auxVars>>)

\* the lock workers with the ordering of their accesses recorded
NextLockMM ==
    /\ \E t \in LockThreads :
            /\ \/ LockCall(t)
               \/ TryLockCall(t)
               \/ SpuriousWake(t)
               \/ LockProgress(t)
            /\ MemoryOrder(t)
    /\ UNCHANGED <<poolVars, loVars, selVars, ccVars, arrVars, histVars>>

LockMMSpecInit ==
    LockInit /\ MMInit /\ CCParked /\ ArrParked /\ HistParked /\ PoolParked /\ LOParked
        /\ SelParked

SpecLockMM == LockMMSpecInit /\ [][NextLockMM]_vars

(***************************************************************************)
(* LifetimeObserver objects of one ControlBlock used by several threads    *)
(***************************************************************************)
LOThreads == 1..NumLOThreads

\* one owner exists, constructed by thread 1 before the threads start
LOConcInit ==
    /\ h_state = [h \in Handles |-> IF h = 1 THEN "live" ELSE "unborn"]
    /\ control_block = [h \in Handles |-> IF h = 1 THEN 1 ELSE 0]
    /\ my_ownership = [h \in Handles |-> "owner"]
    /\ block_state = [b \in Blocks |-> IF b = 1 THEN "live" ELSE "unalloc"]
    /\ owner_count = [b \in Blocks |-> IF b = 1 THEN 1 ELSE 0]
    /\ observer_count = [b \in Blocks |-> 0]
    /\ deletes = [b \in Blocks |-> 0]
    /\ observed = [h \in Handles |-> 0]
    /\ lo_pc = [t \in LOThreads |-> "idle"]
    /\ lo_tmp = [t \in LOThreads |-> 0]
    /\ lo_this = [t \in LOThreads |-> 0]
    /\ lo_new = [t \in LOThreads |-> 0]
    /\ lo_holder = [h \in Handles |-> IF h = 1 THEN 1 ELSE 0]

\* the count of a kind as a thread reads it; a read of a deleted block
\* yields whatever the freed memory holds, here the stale value
CountOf(b, ref_type) ==
    IF ref_type = "owner" THEN owner_count[b] ELSE observer_count[b]

\* thread t calls getObserver() on, or copy-constructs an observer from, an
\* object it holds: control_block(other.control_block), then addRef
ObserverCopyCall(t, this) ==
    /\ lo_pc[t] = "idle"
    /\ Live(this) /\ lo_holder[this] = t
    /\ HasUnborn
    /\ h_state' = [h_state EXCEPT ![NextHandle] = "building"]
    /\ control_block' = [control_block EXCEPT ![NextHandle] = control_block[this]]
    /\ my_ownership' = [my_ownership EXCEPT ![NextHandle] = "observer"]
    /\ lo_pc' = [lo_pc EXCEPT ![t] = "add_load"]
    /\ lo_this' = [lo_this EXCEPT ![t] = this]
    /\ lo_new' = [lo_new EXCEPT ![t] = NextHandle]
    /\ UNCHANGED <<block_state, owner_count, observer_count, deletes, observed,
                   lo_tmp, lo_holder>>

\* ControlBlock::addRef, ++observer_count on a plain int64_t: the load
AddRefLoad(t) ==
    /\ lo_pc[t] = "add_load"
    /\ lo_tmp' = [lo_tmp EXCEPT ![t] = observer_count[control_block[lo_new[t]]]]
    /\ lo_pc' = [lo_pc EXCEPT ![t] = "add_store"]
    /\ UNCHANGED <<loVars, lo_this, lo_new, lo_holder>>

\* ControlBlock::addRef, ++observer_count: the store; the new object is
\* complete and goes to the thread that will use it
AddRefStore(t) ==
    /\ lo_pc[t] = "add_store"
    /\ LET b == control_block[lo_new[t]]
       IN  observer_count' = [observer_count EXCEPT ![b] =
                                IF block_state[b] = "live" THEN lo_tmp[t] + 1 ELSE @]
    /\ h_state' = [h_state EXCEPT ![lo_new[t]] = "live"]
    /\ \E u \in LOThreads : lo_holder' = [lo_holder EXCEPT ![lo_new[t]] = u]
    /\ lo_pc' = [lo_pc EXCEPT ![t] = "idle"]
    /\ lo_tmp' = [lo_tmp EXCEPT ![t] = 0]
    /\ lo_this' = [lo_this EXCEPT ![t] = 0]
    /\ lo_new' = [lo_new EXCEPT ![t] = 0]
    /\ UNCHANGED <<control_block, my_ownership, block_state, owner_count, deletes, observed>>

\* thread t destroys an object it holds: ~LifetimeObserver
DestroyCall(t, this) ==
    /\ lo_pc[t] = "idle"
    /\ Live(this) /\ lo_holder[this] = t
    /\ lo_pc' = [lo_pc EXCEPT ![t] = "rel_load"]
    /\ lo_this' = [lo_this EXCEPT ![t] = this]
    /\ UNCHANGED <<loVars, lo_tmp, lo_new, lo_holder>>

\* ControlBlock::releaseRef, --count on a plain int64_t: the load
ReleaseRefLoad(t) ==
    /\ lo_pc[t] = "rel_load"
    /\ lo_tmp' = [lo_tmp EXCEPT ![t] =
                    CountOf(control_block[lo_this[t]], my_ownership[lo_this[t]])]
    /\ lo_pc' = [lo_pc EXCEPT ![t] = "rel_store"]
    /\ UNCHANGED <<loVars, lo_this, lo_new, lo_holder>>

\* ControlBlock::releaseRef, --count: the store
ReleaseRefStore(t) ==
    /\ lo_pc[t] = "rel_store"
    /\ LET b == control_block[lo_this[t]]
       IN  IF block_state[b] # "live" THEN UNCHANGED <<owner_count, observer_count>>
           ELSE IF my_ownership[lo_this[t]] = "owner"
           THEN /\ owner_count' = [owner_count EXCEPT ![b] = lo_tmp[t] - 1]
                /\ UNCHANGED observer_count
           ELSE /\ observer_count' = [observer_count EXCEPT ![b] = lo_tmp[t] - 1]
                /\ UNCHANGED owner_count
    /\ lo_pc' = [lo_pc EXCEPT ![t] = "check"]
    /\ lo_tmp' = [lo_tmp EXCEPT ![t] = 0]
    /\ UNCHANGED <<h_state, control_block, my_ownership, block_state, deletes, observed,
                   lo_this, lo_new, lo_holder>>

\* the end of the destructor's body for the object of thread t
DestroyDone(t) ==
    /\ h_state' = [h_state EXCEPT ![lo_this[t]] = "dead"]
    /\ control_block' = [control_block EXCEPT ![lo_this[t]] = 0]
    /\ my_ownership' = [my_ownership EXCEPT ![lo_this[t]] = "owner"]
    /\ lo_holder' = [lo_holder EXCEPT ![lo_this[t]] = 0]
    /\ lo_pc' = [lo_pc EXCEPT ![t] = "idle"]
    /\ lo_this' = [lo_this EXCEPT ![t] = 0]
    /\ UNCHANGED <<observed, lo_tmp, lo_new>>

\* ~LifetimeObserver: if (getCount(owner) == 0 && getCount(observer) == 0)
CheckCounts(t) ==
    /\ lo_pc[t] = "check"
    /\ \E z \in BothZero(Store, control_block[lo_this[t]]) :
            IF z
            THEN /\ lo_pc' = [lo_pc EXCEPT ![t] = "delete"]
                 /\ UNCHANGED <<loVars, lo_tmp, lo_this, lo_new, lo_holder>>
            ELSE /\ DestroyDone(t)
                 /\ UNCHANGED <<block_state, owner_count, observer_count, deletes>>

\* ~LifetimeObserver: delete control_block
DeleteBlock(t) ==
    /\ lo_pc[t] = "delete"
    /\ SetStore(deleteControlBlock(Store, control_block[lo_this[t]]))
    /\ DestroyDone(t)

NextLOConc ==
    /\ \E t \in LOThreads :
            \/ \E this \in Handles : ObserverCopyCall(t, this)
            \/ AddRefLoad(t)
            \/ AddRefStore(t)
            \/ \E this \in Handles : DestroyCall(t, this)
            \/ ReleaseRefLoad(t)
            \/ ReleaseRefStore(t)
            \/ CheckCounts(t)
            \/ DeleteBlock(t)
    /\ UNCHANGED <<lockVars, poolVars, selVars, mmVars, arrVars, histVars>>

LOConcSpecInit ==
    LOConcInit /\ LockParked /\ PoolParked /\ SelParked /\ MMParked /\ ArrParked
        /\ HistParked

SpecLOConc == LOConcSpecInit /\ [][NextLOConc]_vars

\* one array made by make_pool_unique<T[]>, moved between handles, and
\* every handle dropped in any order
NextArr ==
    /\ \/ \E size \in 0..MaxElems : MakePoolUnique(size)
       \/ ConstructElem
       \/ ReturnHandle
       \/ \E a, b \in UniqueHandles : MoveHandle(a, b)
       \/ \E h \in UniqueHandles : DropHandle(h)
       \/ DestroyElem
       \/ DeleterDeallocate
    /\ UNCHANGED <<lockVars, poolVars, loVars, selVars, mmVars, ccVars, histVars>>

ArrSpecInit ==
    ArrInit /\ LockParked /\ PoolParked /\ LOParked /\ SelParked /\ MMParked /\ CCParked
        /\ HistParked

SpecArr == ArrSpecInit /\ [][NextArr]_vars

LOSpecInit == LOInit /\ LockParked /\ PoolParked /\ SelParked /\ AuxParked

SpecLO == LOSpecInit /\ [][NextLO]_vars

(***************************************************************************)
(* Claims on SpinLock                                                      *)
(***************************************************************************)
\* C2: at any instant at most one thread is between a successful lock() or
\* try_lock() and its unlock(), the flag is set while a thread is there, and
\* once all T workers have completed their N rounds the shared integer is
\* exactly T x N: no increment is lost.
C2_MutualExclusion ==
    /\ Cardinality({t \in LockThreads : InCS(t)}) <= 1
    /\ (\E t \in LockThreads : InCS(t)) => lock_flag
    /\ (\A t \in LockThreads : sl_pc[t] = "idle" /\ iters[t] = Increments)
          => counter = NumLockThreads * Increments

\* all workers have finished their rounds
C2_Witness ==
    /\ \A t \in LockThreads : sl_pc[t] = "idle" /\ iters[t] = Increments
    /\ counter = NumLockThreads * Increments

\* C7: no wake-up is lost.  A thread that reaches lock_flag.wait(true) when
\* the flag is already clear does not block, and whenever the flag is clear
\* while some thread is executing lock(), some thread eventually holds the
\* lock.
C7_NoLostWakeup ==
    /\ [][\A t \in LockThreads :
            (sl_pc[t] = "wait" /\ ~lock_flag /\ sl_pc'[t] # "wait")
                => sl_pc'[t] = "spin"]_vars
    /\ ((~lock_flag /\ \E t \in LockThreads : InLock(t))
            ~> (\E t \in LockThreads : InCS(t)))

\* a thread is about to enter the kernel-assisted wait although the holder
\* has already cleared the flag and finished its notify
C7_Witness ==
    \E t \in LockThreads :
        /\ sl_pc[t] = "wait"
        /\ ~lock_flag
        /\ \A u \in LockThreads \ {t} : sl_pc[u] = "idle" /\ iters[u] > 0

(***************************************************************************)
(* Claims on Slab and Pool                                                 *)
(***************************************************************************)
\* the bytes [a, a + n) and [b, b + m) do not meet
Disjoint(a, n, b, m) == a + n <= b \/ b + m <= a

\* the threads whose allocateItem has returned a slot that Pool::allocate
\* has not yet returned
Returning == {t \in PoolThreads : pc[t] = "a_hdr"}

\* C1: while every returned pointer is freed at most once, any two distinct
\* outstanding pointers refer to disjoint byte ranges, and so do the slots
\* that allocate is about to return: no slot is handed out twice at a time.
C1_DisjointOutstanding ==
    ~misuse =>
        /\ \A o1, o2 \in outstanding :
                o1 # o2 => Disjoint(o1[1], o1[2], o2[1], o2[2])
        /\ \A t \in Returning : \A o \in outstanding :
                Disjoint(loc[t].ptr, loc[t].alloc_size, o[1], o[2])
        /\ \A t1, t2 \in Returning :
                t1 # t2 => Disjoint(loc[t1].ptr, loc[t1].alloc_size,
                                    loc[t2].ptr, loc[t2].alloc_size)

\* the callers hold as many pointers as the model allows, one slab has
\* grown, and a freed slot lies below a slot in use
C1_Witness ==
    /\ ~misuse
    /\ Cardinality(outstanding) = MaxOutstanding
    /\ \E c \in ModelClasses : Len(slab_data[c]) = 2
    /\ \E c \in ModelClasses : \E k \in 1..Len(slab_map[c]) : slab_map[c][k] = {1}

\* p lies inside no chunk of slab c
InNoChunk(c, p) ==
    \A k \in 1..Len(slab_data[c]) :
        p < slab_data[c][k] \/ p >= slab_data[c][k] + slab_alloc_size(c)

\* p lies in a slot of slab c whose occupancy bit is 0
InFreeSlot(c, p) ==
    \E k \in 1..Len(slab_data[c]) :
        /\ p >= slab_data[c][k]
        /\ p < slab_data[c][k] + SlotCount(c) * ElemSize(c)
        /\ ((p - slab_data[c][k]) \div ElemSize(c)) \notin slab_map[c][k]

\* C3: Slab::deallocateItem(p) ends with std::invalid_argument and changes
\* no occupancy bit, availability bit, chunk or map entry when p lies inside
\* no chunk of the slab or the bit of p's slot is already 0; and a double
\* free through Pool::deallocate of a slab-served pointer whose slot was not
\* allocated again reaches the slab that served it with the base of that
\* free slot, hence ends the same way.
C3_InvalidDeallocate ==
    [][/\ \A t \in PoolThreads :
            (/\ pc[t] = "d_item"
             /\ pc'[t] # "d_item"
             /\ InNoChunk(loc[t].slab, loc[t].ptr) \/ InFreeSlot(loc[t].slab, loc[t].ptr))
                => /\ pc'[t] = "throw_invalid_argument"
                   /\ UNCHANGED <<slabVars, large_live, header, outstanding>>
       /\ \A t \in PoolThreads :
            (/\ pc[t] = "idle"
             /\ pc'[t] = "d_pool"
             /\ loc'[t].user \notin OutPtrs
             /\ \E c \in ModelClasses : InFreeSlot(c, loc'[t].user))
                => LET c == selectSlab(loc'[t].alloc_size)
                   IN  /\ c \in ModelClasses
                       /\ InFreeSlot(c, loc'[t].ptr)
                       /\ \E k \in 1..Len(slab_data[c]) :
                            \E j \in 0..(SlotCount(c) - 1) :
                                loc'[t].ptr = slab_data[c][k] + j * ElemSize(c)]_vars

\* a deallocate has just failed with std::invalid_argument while pointers
\* are outstanding
C3_Witness ==
    /\ pc[1] = "throw_invalid_argument"
    /\ outstanding # {}

\* C4: for every existing chunk of every slab, whenever the slab lock is
\* free, the availability bit is 1 if and only if the occupancy bitmap has
\* at least one 0 bit.
C4_AvailabilityIffFree ==
    \A c \in ModelClasses :
        slab_lock[c] = 0 =>
            \A k \in 1..Len(slab_data[c]) :
                ((k - 1) \in slab_available_map[c])
                    <=> (slab_map[c][k] # 0..(SlotCount(c) - 1))

\* a slab with a full first chunk and a second chunk with a free slot
C4_Witness ==
    \E c \in ModelClasses :
        /\ slab_lock[c] = 0
        /\ Len(slab_data[c]) = 2
        /\ slab_map[c][1] = 0..(SlotCount(c) - 1)
        /\ 0 \notin slab_available_map[c]
        /\ slab_map[c][2] # 0..(SlotCount(c) - 1)

\* number of set bits over all occupancy bitmaps of slab c
SetBits(c) ==
    Cardinality({<<k, j>> \in (1..Len(slab_map[c])) \X (0..(SlotCount(c) - 1)) :
                    j \in slab_map[c][k]})

\* pointers of class c the callers hold: returned ones, slots about to be
\* returned, and pointers passed to a deallocate that has not yet cleared
\* the bit
HeldIn(c) ==
    Cardinality({o \in outstanding : ~InNoChunk(c, o[1])})
    + Cardinality({t \in PoolThreads : pc[t] = "a_hdr" /\ loc[t].slab = c})
    + Cardinality({t \in PoolThreads :
                    /\ pc[t] \in {"d_pool", "d_sel", "d_slab", "d_item"}
                    /\ selectSlab(loc[t].alloc_size) = c})

\* C5: for every size class the number of set occupancy bits changes by +1
\* with each successful allocate of the class, by -1 with each successful
\* deallocate and with nothing else, starting from 0; hence it is the
\* number of successful allocates minus successful deallocates, and while
\* no pointer is freed twice it is the number of pointers outstanding.
C5_SetBitsCount ==
    /\ [](~misuse => \A c \in ModelClasses : SetBits(c) = HeldIn(c))
    /\ [][\A c \in ModelClasses :
            SetBits(c)' - SetBits(c) =
                Cardinality({t \in PoolThreads :
                    pc[t] = "a_item" /\ pc'[t] = "a_hdr" /\ loc[t].slab = c})
                - Cardinality({t \in PoolThreads :
                    pc[t] = "d_item" /\ pc'[t] = "idle" /\ loc[t].slab = c})]_vars

\* after allocates and a deallocate in one class, some pointers are held
C5_Witness ==
    /\ ~misuse
    /\ SetBits(ProbedClass) = 2
    /\ slab_map[ProbedClass][1] = {1}
    /\ Len(slab_map[ProbedClass]) = 2

\* the locks thread t holds
HoldsPoolLock(t) == pool_lock = t
HoldsSlabLock(t) == \E c \in ModelClasses : slab_lock[c] = t

\* thread t is inside the lock() of a scoped_lock
WaitsForLock(t) == pc[t] \in {"a_pool", "d_pool", "a_slab", "d_slab"}

\* C6: no thread ever holds the Pool lock and a Slab lock together, and no
\* thread waits for a lock while it holds one, so no cycle of waiting
\* threads can form: every held lock belongs to a thread that can run.
C6_NoNestedLocks ==
    \A t \in PoolThreads :
        /\ ~(HoldsPoolLock(t) /\ HoldsSlabLock(t))
        /\ (HoldsPoolLock(t) \/ HoldsSlabLock(t)) => ~WaitsForLock(t)
        /\ HoldsPoolLock(t) => pc[t] \in {"a_sel", "d_sel"}
        /\ HoldsSlabLock(t) => pc[t] \in {"a_item", "d_item"}

\* a thread waits for a slab lock another thread holds while a third party,
\* or the same holder, is free to take the pool lock
C6_Witness ==
    \E t1, t2 \in PoolThreads :
        /\ t1 # t2
        /\ pc[t1] = "a_slab"
        /\ slab_lock[loc[t1].slab] = t2
        /\ pool_lock = 0

(***************************************************************************)
(* Claims on LifetimeObserver                                              *)
(***************************************************************************)
\* C8: a ControlBlock is destroyed only when both of its counts are 0 and
\* is destroyed exactly once, and no live handle ever points to a destroyed
\* ControlBlock.
C8_DestroyedOnlyUnreferenced ==
    /\ \A b \in Blocks :
            /\ deletes[b] <= 1
            /\ block_state[b] = "deleted" => owner_count[b] = 0 /\ observer_count[b] = 0
    /\ \A h \in Handles : Live(h) => block_state[control_block[h]] = "live"

\* a live observer handle points to a ControlBlock that was deleted with
\* its observer count at 1
C8_Witness ==
    \E h \in Handles :
        /\ Live(h)
        /\ my_ownership[h] = "observer"
        /\ block_state[control_block[h]] = "deleted"
        /\ observer_count[control_block[h]] = 1

\* the live Owner handles of ControlBlock b
OwnersOf(b) ==
    {h \in Handles : Live(h) /\ control_block[h] = b /\ my_ownership[h] = "owner"}

\* C9: for every live Observer handle o on ControlBlock B, B still exists,
\* and o.isAlive() is true exactly while some live Owner handle of B exists.
C9_AliveWhileOwned ==
    \A o \in Handles :
        (Live(o) /\ my_ownership[o] = "observer") =>
            /\ block_state[control_block[o]] = "live"
            /\ \A r \in isAlive(o) : r <=> (OwnersOf(control_block[o]) # {})

\* an observer whose isAlive() may return true although its ControlBlock
\* is gone and has no Owner handle
C9_Witness ==
    \E o \in Handles :
        /\ Live(o)
        /\ my_ownership[o] = "observer"
        /\ OwnersOf(control_block[o]) = {}
        /\ TRUE \in isAlive(o)

\* C10: an Observer obtained by A.getObserver() reports isAlive() == true at
\* every point before A is destroyed and false at every point after,
\* whatever is applied to A in between.
C10_TracksObject ==
    \A o \in Handles :
        (Live(o) /\ observed[o] # 0) =>
            \A r \in isAlive(o) : r <=> Live(observed[o])

\* the observer of a live object reports it dead, its ControlBlock intact
C10_Witness ==
    \E o \in Handles :
        /\ Live(o)
        /\ observed[o] # 0
        /\ Live(observed[o])
        /\ block_state[control_block[o]] = "live"
        /\ isAlive(o) = {FALSE}

PoolState == <<slabVars, large_live, header, outstanding>>

\* the steps of thread t that are a call of Pool::allocate up to its first
\* throw, abort or lock
AllocateCalled(t) ==
    /\ pc[t] = "idle"
    /\ pc'[t] \in {"a_pool", "abort", "throw_invalid_argument", "throw_out_of_range"}

\* C12: every pointer p that Pool.allocate(user_bytes, alignment) has
\* returned has a stored header_size of 8 or 16, lies header_size bytes above
\* the address the Slab or SlabProxy returned, and is a multiple of the
\* requested alignment.
C12_AlignedReturn ==
    \A o \in outstanding :
        /\ o[4] \in {MinHeader, MaxAlignment}
        /\ o[1] = o[6] + o[4]
        /\ o[1] % o[7] = 0

\* a pointer requested with alignment 12 has been returned
C12_Witness ==
    \E o \in outstanding : o[7] = 12 /\ o[4] = 12 /\ o[1] % 12 # 0

\* C14: a call Pool.allocate(user_bytes, alignment) whose alignment is not 4,
\* 8 or 16 (and whose size passes the size check) fails with InvalidArgument,
\* returns no pointer and leaves the state of the Pool unchanged.
C14_UnsupportedAlignment ==
    [][\A t \in PoolThreads :
            /\ (AllocateCalled(t) /\ pc'[t] # "throw_out_of_range"
                    /\ loc'[t].alignment \notin {4, 8, 16})
                => (pc'[t] = "throw_invalid_argument" /\ UNCHANGED PoolState)
            /\ (pc[t] = "throw_invalid_argument" /\ pc'[t] # pc[t])
                => (pc'[t] = "idle" /\ UNCHANGED PoolState)]_vars

\* a release build is about to return a pointer for alignment 12
C14_Witness ==
    \E t \in PoolThreads : pc[t] = "a_hdr" /\ loc[t].alignment = 12

\* C15: a call Pool.allocate whose user_bytes exceed 1 GiB - header_size
\* (alignment supported) fails with OutOfRange and changes nothing, and
\* SlabProxy asked for more than 1 GiB fails with OutOfRange.
C15_TooLargeRejected ==
    [][\A t \in PoolThreads :
            /\ (AllocateCalled(t) /\ loc'[t].alignment \in {4, 8, 16}
                    /\ loc'[t].item_size + headerSize(loc'[t].alignment) > GB)
                => (pc'[t] = "throw_out_of_range" /\ UNCHANGED PoolState)
            /\ (pc[t] = "a_large" /\ pc'[t] # pc[t] /\ loc[t].alloc_size > GB)
                => (pc'[t] = "throw_out_of_range" /\ UNCHANGED PoolState)]_vars

\* SlabProxy has returned a block of more than 1 GiB
C15_Witness ==
    \E t \in PoolThreads : pc[t] = "a_hdr" /\ loc[t].alloc_size > GB

(***************************************************************************)
(* Claims on the class selection                                           *)
(***************************************************************************)
\* the classes whose slots hold n bytes
FittingClasses(n) == {c \in 0..(Len(ElemSizes) - 1) : ElemSize(c) >= n}

\* C13: selectSlab maps alloc_size to the class with the smallest slot size
\* that is at least alloc_size, and to the large backend exactly when
\* alloc_size exceeds 1024; an alloc_size equal to a slot size maps to that
\* class.
C13_SmallestFit ==
    sel_slab_index # NullSlab =>
        LET alloc_size == sel_item_size + headerSize(sel_alignment)
        IN  /\ (sel_slab_index = LargeSlab) <=> (alloc_size > KB)
            /\ sel_slab_index # LargeSlab =>
                    /\ sel_slab_index \in FittingClasses(alloc_size)
                    /\ \A c \in FittingClasses(alloc_size) :
                            ElemSize(sel_slab_index) <= ElemSize(c)
            /\ \A c \in 0..(Len(ElemSizes) - 1) :
                    alloc_size = ElemSize(c) => sel_slab_index = c

\* 24 bytes with alignment 8 have been mapped to the class of 32-byte slots
C13_Witness ==
    /\ sel_item_size = 24
    /\ sel_alignment = DefaultAlignment
    /\ sel_slab_index # NullSlab
    /\ ElemSize(sel_slab_index) = 32

(***************************************************************************)
(* Claims on the chunk cap                                                 *)
(***************************************************************************)
\* slab c owns max_slabs chunks and every slot of them is allocated
Exhausted(c) ==
    /\ Len(slab_data[c]) = max_slabs
    /\ \A i \in 1..Len(slab_map[c]) : slab_map[c][i] = 0..(SlotCount(c) - 1)

\* C16: an allocate on a Slab that owns the maximal number of chunks with
\* every slot allocated fails with OutOfRange, returns no pointer and leaves
\* chunks, chunk map and bitmaps unchanged; an allocate on a Slab with a free
\* slot or room for a chunk, such as the one after a deallocate, succeeds.
C16_ExhaustedSlab ==
    [][\A t \in PoolThreads :
            (pc[t] = "a_item" /\ pc'[t] # pc[t])
                => IF Exhausted(loc[t].slab)
                   THEN /\ pc'[t] = "throw_out_of_range"
                        /\ UNCHANGED <<slabVars, outstanding>>
                   ELSE /\ pc'[t] = "a_hdr"
                        /\ SetBits(loc[t].slab)' = SetBits(loc[t].slab) + 1]_vars

\* the allocate on the exhausted slab is failing with std::out_of_range
C16_Witness ==
    \E t \in PoolThreads :
        /\ pc[t] = "throw_out_of_range"
        /\ Exhausted(ProbedClass)
        /\ Cardinality(outstanding) = max_slabs * SlotCount(ProbedClass)

(***************************************************************************)
(* Claims on lock(), try_lock() and unlock()                               *)
(***************************************************************************)
\* the threads other than t keep their positions
OthersKeep(t) == \A w \in LockThreads \ {t} : sl_pc'[w] = sl_pc[w]

\* C17: lock() returns only from a test_and_set of the caller that found the
\* flag clear and set it; after the spin phase, a backoff sleep or a wake-up
\* from the blocking wait the caller is back in the loop, and it does not
\* return while another thread holds the lock.
C17_ReturnsByOwnTAS ==
    [][\A t \in LockThreads :
            /\ (InLock(t) /\ ~InLock(t)')
                => /\ sl_pc[t] = "tas"
                   /\ ~lock_flag /\ lock_flag'
                   /\ sl_pc'[t] = "cs_read"
            /\ (sl_pc[t] \in {"sleep", "wait", "blocked"} /\ sl_pc'[t] # sl_pc[t])
                => sl_pc'[t] \in {"spin", "wait", "blocked"}
            /\ (InLock(t) /\ \E u \in LockThreads \ {t} : InCS(u))
                => InLock(t)']_vars

\* a caller that went through its backoff sleeps is about to repeat the
\* test_and_set while another thread holds the lock
C17_Witness ==
    \E t, u \in LockThreads :
        /\ t # u
        /\ sl_pc[t] = "tas"
        /\ backoff_count[t] = BackoffLimit
        /\ spin_i[t] = 0
        /\ InCS(u)

\* C18: try_lock() never blocks and has no loop: it can always take its
\* next step and ends after the test or after the test_and_set; it returns
\* true exactly when its own test_and_set changed the flag from clear to
\* set; when it returns false the flag was set and stays set and no other
\* thread is affected; on a free lock its test_and_set returns true, on a
\* held lock it returns false.
C18_TryLock ==
    /\ [](\A t \in LockThreads :
            /\ sl_pc[t] = "try_test" => ENABLED TryLockTest(t)
            /\ sl_pc[t] = "try_tas" => ENABLED TryLockTAS(t))
    /\ [][\A t \in LockThreads :
            (sl_pc[t] \in {"try_test", "try_tas"} /\ sl_pc'[t] # sl_pc[t])
                => /\ sl_pc[t] = "try_test" => sl_pc'[t] \in {"try_tas", "idle"}
                   /\ sl_pc[t] = "try_tas" => sl_pc'[t] \in {"cs_read", "idle"}
                   /\ (sl_pc'[t] = "cs_read") <=>
                            (sl_pc[t] = "try_tas" /\ ~lock_flag /\ lock_flag')
                   /\ sl_pc'[t] = "idle" => (lock_flag /\ lock_flag')
                   /\ sl_pc'[t] \in {"idle", "try_tas"} => UNCHANGED lock_flag
                   /\ lock_flag => sl_pc'[t] = "idle"
                   /\ OthersKeep(t)]_vars

\* a try_lock() that saw the flag clear is about to test_and_set while
\* another thread has taken the lock
C18_Witness ==
    \E t, u \in LockThreads :
        t # u /\ sl_pc[t] = "try_tas" /\ InCS(u) /\ lock_flag

\* the waiters blocked in lock_flag.wait(true)
Blocked == {w \in LockThreads : sl_pc[w] = "blocked"}

\* C19: unlock() first clears the flag, which its caller had set, and wakes
\* nobody in that step; only then it notifies, and the notification
\* unblocks at most one of the blocked waiters and leaves the flag alone.
C19_ClearThenNotifyOne ==
    [][\A t \in LockThreads :
            /\ (sl_pc[t] = "unlock" /\ sl_pc'[t] # sl_pc[t])
                => /\ lock_flag /\ ~lock_flag'
                   /\ sl_pc'[t] = "notify"
                   /\ OthersKeep(t)
            /\ (sl_pc[t] = "notify" /\ sl_pc'[t] # sl_pc[t])
                => /\ sl_pc'[t] = "idle"
                   /\ UNCHANGED lock_flag
                   /\ Cardinality(Blocked \ Blocked') <= 1
                   /\ \A w \in LockThreads \ (Blocked \cup {t}) : sl_pc'[w] = sl_pc[w]
                   /\ \A w \in Blocked : sl_pc'[w] \in {"blocked", "wait"}]_vars

\* an unlock() is about to notify while two waiters are blocked
C19_Witness ==
    \E t \in LockThreads :
        /\ sl_pc[t] = "notify"
        /\ Cardinality(Blocked) >= 2

\* C20: every call of lock() eventually returns holding the lock, for every
\* calling thread, when every holder unlocks and every thread keeps being
\* scheduled.
C20_EveryLockReturns ==
    \A t \in LockThreads : InLock(t) ~> InCS(t)

\* a caller is blocked in lock_flag.wait(true) while the two other threads
\* are the holder and a thread about to test_and_set
C20_Witness ==
    \E t, u, v \in LockThreads :
        /\ sl_pc[t] = "blocked"
        /\ sl_pc[u] = "unlock"
        /\ sl_pc[v] = "tas"

(***************************************************************************)
(* Claims on concurrent Slab operations                                    *)
(***************************************************************************)
\* the state of the Slab of class c
SlabState(c) ==
    [data |-> slab_data[c], map |-> slab_map[c],
     avail |-> slab_available_map[c], bmap |-> base_address_map[c]]

\* the threads inside the guarded body of an operation of slab c
InBody(c) ==
    {t \in PoolThreads :
        pc[t] \in {"a_item", "a_set", "d_item", "d_reset"} /\ loc[t].slab = c}

\* C21: operations on one Slab take effect one at a time in the order in
\* which they acquired the slab lock: only the holder of the lock is inside
\* the body of an operation, only it changes the state of the Slab, and when
\* an operation completes, its result and the state it leaves are those of
\* the whole operation run on the state its predecessor left.
C21_Linearizable ==
    /\ [](\A c \in ModelClasses : \A t \in InBody(c) :
                slab_lock[c] = t /\ InBody(c) = {t})
    /\ [][\A c \in ModelClasses :
            /\ SlabState(c)' # SlabState(c)
                => \E t \in InBody(c) : slab_lock[c] = t /\ pc'[t] # pc[t]
            /\ \A t \in InBody(c) :
                    /\ (pc[t] = "a_set" /\ pc'[t] # pc[t])
                        => LET r == allocateItemFrom(c, 0, 0)
                           IN  /\ r.status = "ok"
                               /\ pc'[t] = "a_hdr"
                               /\ loc'[t].ptr = r.ptr
                               /\ SlabState(c)' = r.st
                    /\ (pc[t] = "d_reset" /\ pc'[t] # pc[t])
                        => LET r == deallocateItemBody(c, loc[t].ptr)
                           IN  /\ r.status = "ok"
                               /\ pc'[t] = "idle"
                               /\ SlabState(c)' = r.st
                    /\ (pc[t] = "a_item" /\ pc'[t] = "throw_out_of_range")
                        => /\ allocateItemFrom(c, 0, 0).status = "out_of_range"
                           /\ UNCHANGED slabVars]_vars

\* one thread is between finding a free slot and setting its bit while
\* another thread waits for the lock of the same Slab
C21_Witness ==
    \E t, u \in PoolThreads :
        /\ pc[t] = "a_set"
        /\ pc[u] \in {"a_slab", "d_slab"}
        /\ loc[u].slab = loc[t].slab

(***************************************************************************)
(* Claims on the memory ordering of the SpinLock                           *)
(***************************************************************************)
\* C22: every write made while holding the SpinLock happens before every
\* access the next holder makes: a thread that has acquired the lock, by
\* lock() or try_lock(), has all writes of all earlier critical sections in
\* its happens-before past, and the counter it then reads is the number of
\* those writes; the relaxed test and wait give no ordering and need none.
C22_ReleaseAcquire ==
    \A t \in LockThreads :
        InCS(t) =>
            /\ cs_writes \subseteq hb[t]
            /\ sl_pc[t] = "cs_read" => counter = Cardinality(hb[t])

\* a thread has read the counter inside its critical section after the two
\* other threads wrote it inside theirs
C22_Witness ==
    \E t \in LockThreads :
        /\ sl_pc[t] = "cs_write"
        /\ Cardinality(cs_writes) = 2
        /\ t \notin {e[1] : e \in cs_writes}
        /\ cs_writes \subseteq hb[t]

(***************************************************************************)
(* Claims on LifetimeObserver                                              *)
(***************************************************************************)
\* the objects of a kind that refer to block b, objects under construction
\* or destruction not included
HandlesOf(b, ref_type) ==
    {h \in Handles : Live(h) /\ control_block[h] = b /\ my_ownership[h] = ref_type}

\* no thread is inside a call
LOQuiescent == \A t \in LOThreads : lo_pc[t] = "idle"

\* C23: threads that copy, observe and destroy objects of one ControlBlock
\* without a lock lose no count update (between calls each count is the
\* number of live objects of its kind), and the ControlBlock is destroyed
\* exactly once, when the last object has gone.
C23_CountsSafe ==
    /\ deletes[1] <= 1
    /\ LOQuiescent =>
            /\ block_state[1] = "live" =>
                    /\ owner_count[1] = Cardinality(HandlesOf(1, "owner"))
                    /\ observer_count[1] = Cardinality(HandlesOf(1, "observer"))
            /\ block_state[1] = "deleted"
                    <=> HandlesOf(1, "owner") \cup HandlesOf(1, "observer") = {}

\* the last owner and the last observer have been destroyed by two threads
\* at the same time and the block has been deleted twice
C23_Witness ==
    /\ LOQuiescent
    /\ deletes[1] = 2
    /\ \A h \in Handles : h_state[h] \in {"dead", "unborn"}

\* C24: a freshly constructed Owner has a new ControlBlock with counts
\* (1, 0) and is alive; getObserver() on any handle yields an Observer on the
\* same ControlBlock, raises its observer_count by exactly 1 and leaves its
\* owner_count unchanged; destroying an Observer lowers the observer_count
\* of its block by exactly 1.
C24_FreshOwnerAndObserver ==
    [][/\ Construct =>
            LET n == NextHandle
                b == FreshBlock
            IN  /\ control_block'[n] = b
                /\ my_ownership'[n] = "owner"
                /\ block_state'[b] = "live"
                /\ owner_count'[b] = 1 /\ observer_count'[b] = 0
       /\ \A this \in Handles :
            getObserver(this) =>
                LET n == NextHandle
                    b == control_block[this]
                IN  /\ h_state'[n] = "live"
                    /\ control_block'[n] = b
                    /\ my_ownership'[n] = "observer"
                    /\ observer_count'[b] = observer_count[b] + 1
                    /\ owner_count'[b] = owner_count[b]
       /\ \A o \in Handles :
            (my_ownership[o] = "observer" /\ Destroy(o)) =>
                LET b == control_block[o]
                IN  /\ observer_count'[b] = observer_count[b] - 1
                    /\ owner_count'[b] = owner_count[b]]_vars

\* an observer whose ControlBlock has been deleted under it, and room for
\* one more object to be built from it
C24_Witness ==
    /\ HasUnborn
    /\ \E o \in Handles :
            /\ Live(o)
            /\ my_ownership[o] = "observer"
            /\ block_state[control_block[o]] = "deleted"

Moved(s, t, n) ==
    LET b == control_block[s]
    IN  /\ control_block'[t] = b
        /\ my_ownership'[t] = my_ownership[s]
        /\ block_state'[b] = block_state[b]
        /\ owner_count'[b] = owner_count[b]
        /\ observer_count'[b] = observer_count[b]
        /\ control_block'[s] = n
        /\ my_ownership'[s] = "owner"
        /\ block_state'[n] = "live"
        /\ owner_count'[n] = 1 /\ observer_count'[n] = 0

\* C26: moving handle s into a distinct handle t, by move construction or
\* move assignment, gives t the ControlBlock and discriminant s had without
\* changing that block's counts, and leaves s an Owner of a fresh
\* ControlBlock with counts (1, 0), alive.
C26_MoveTransfers ==
    [][\A s \in Handles :
        /\ MoveConstruct(s) => Moved(s, NextHandle, FreshBlock)
        /\ \A t \in Handles \ {s} :
                (HasFresh /\ MoveAssign(t, s)) => Moved(s, t, FreshBlock)]_vars

\* an Observer and the Owner it observes, both live on an intact block: the
\* Owner can be move-assigned into its Observer
C26_Witness ==
    /\ HasFresh
    /\ \E s, t \in Handles :
            /\ Live(s) /\ Live(t)
            /\ my_ownership[s] = "owner" /\ my_ownership[t] = "observer"
            /\ control_block[s] = control_block[t]
            /\ block_state[control_block[s]] = "live"

(***************************************************************************)
(* Claims on the effect of Slab operations on the chunks                   *)
(***************************************************************************)
\* Slab::deallocateItem applied to the pointer thread t has in hand
RoundTrip(t) == deallocateItemBody(loc[t].slab, loc[t].ptr)

\* state `after` of a Slab is state `before` plus one chunk with no bit set
OneFreeChunkMore(before, after) ==
    LET n == Len(before.data)
    IN  /\ Len(after.data) = n + 1
        /\ SubSeq(after.data, 1, n) = before.data
        /\ Len(after.map) = n + 1
        /\ SubSeq(after.map, 1, n) = SubSeq(before.map, 1, n)
        /\ after.map[n + 1] = {}
        /\ after.avail = before.avail
        /\ before.bmap \subseteq after.bmap

\* C27: a successful allocate followed at once by the deallocate of the
\* pointer it returned restores the occupancy bitmap and the availability
\* bit of every chunk that existed before; the state of the Slab is the one
\* before the allocate, or that state with one more chunk, entirely free.
C27_AllocateDeallocateRestores ==
    [][\A t \in PoolThreads :
        (pc[t] = "a_item" /\ pc'[t] = "a_hdr") =>
            LET before == SlabState(loc[t].slab)
                after == RoundTrip(t)'
            IN  /\ after.status = "ok"
                /\ \/ after.st = before
                   \/ OneFreeChunkMore(before, after.st)]_vars

\* an allocation has just taken the last free slot of the first chunk of a
\* slab that owns two chunks, and its deallocation would set the
\* availability bit again
C27_Witness ==
    \E t \in PoolThreads :
        /\ pc[t] = "a_hdr"
        /\ Len(slab_data[loc[t].slab]) = 2
        /\ 0 \notin slab_available_map[loc[t].slab]
        /\ loc[t].ptr < slab_data[loc[t].slab][1] + slab_alloc_size(loc[t].slab)
        /\ loc[t].ptr >= slab_data[loc[t].slab][1]
        /\ 0 \in RoundTrip(t).st.avail

(***************************************************************************)
(* Claims on deallocation of nullptr                                       *)
(***************************************************************************)
\* thread t is inside Pool::deallocate(nullptr) or
\* Slab::deallocateItem(nullptr), before the test of the pointer
InNullDeallocate(t) ==
    \/ pc[t] = "d_test" /\ loc[t].user = NullPtr
    \/ pc[t] = "ds_test" /\ loc[t].ptr = NullPtr

\* C28: Pool::deallocate(nullptr) and Slab::deallocateItem(nullptr) return
\* without an error and without reading a header, taking a lock or changing
\* any state: the call can return whoever holds the locks, its only step
\* ends the call, decodes nothing, and leaves the locks, the slabs, the
\* headers and the held pointers as they were.
C28_NullDeallocateNoOp ==
    /\ [](\A t \in PoolThreads :
            InNullDeallocate(t) =>
                ENABLED (PoolDeallocateTest(t) \/ SlabDeallocateTest(t)))
    /\ [][\A t \in PoolThreads :
            (InNullDeallocate(t) /\ pc'[t] # pc[t]) =>
                /\ pc'[t] = "idle"
                /\ loc'[t] = LocNone
                /\ UNCHANGED <<pool_lock, slab_lock, slabVars, large_live, header,
                               outstanding, misuse>>]_vars

\* a thread is inside Pool::deallocate(nullptr) while the other thread
\* holds the pool lock, and pointers are held
C28_Witness ==
    \E t, u \in PoolThreads :
        /\ pc[t] = "d_test"
        /\ loc[t].user = NullPtr
        /\ pool_lock = u
        /\ u # t
        /\ outstanding # {}

(***************************************************************************)
(* Claims on unique array handles                                          *)
(***************************************************************************)
\* C29: dropping the unique handle of an array of n elements runs the
\* element destructors in the order n - 1, ..., 0, each on a constructed
\* element and each exactly once, and only after the last of them returns
\* the allocation to the Pool, exactly once; a moved-from handle destroys
\* and returns nothing.
C29_ReverseDestroyThenFree ==
    /\ \A k \in 1..Len(destroy_log) : destroy_log[k] = arr_n - k
    /\ \A i \in ElemIndexes : elem[i] # "misused"
    /\ pool_block # "misused"
    /\ pool_block = "returned" =>
            /\ Len(destroy_log) = arr_n
            /\ \A i \in ElemIndexes : i < arr_n => elem[i] = "destroyed"
    /\ (arr_pc = "idle" /\ uh_state[1] # "none")
            => (pool_block = "returned" <=> \A h \in UniqueHandles : uh_ptr[h] = NoArray)

\* an array of MaxElems elements has been moved into a second handle and
\* that handle dropped: all elements are destroyed, the allocation is back
\* in the Pool, and the moved-from handle is still there
C29_Witness ==
    /\ arr_n = MaxElems
    /\ Len(destroy_log) = MaxElems
    /\ pool_block = "returned"
    /\ uh_state[1] = "live"
    /\ uh_state[2] = "dropped"

\* every chunk of slab c has all its bits set
AllFull(c) ==
    \A i \in 1..Len(slab_map[c]) : slab_map[c][i] = 0..(SlotCount(c) - 1)

\* C30: an allocate that returns adds a chunk exactly when every existing
\* chunk is full at the time it holds the slab lock, and then adds exactly
\* one (an allocate that fails adds none); the base addresses of the chunks
\* that existed stay as they were, and so do their occupancy bits when a
\* chunk is added; on a slab with one chunk, the allocation after the one
\* that filled it leaves exactly two chunks.
C30_GrowsWhenFull ==
    [][\A t \in PoolThreads :
        (pc[t] = "a_item" /\ pc'[t] # pc[t]) =>
            LET c == loc[t].slab
                n == Len(slab_data[c])
                m == Len(slab_data'[c])
            IN  /\ m \in {n, n + 1}
                /\ pc'[t] = "a_hdr" => (m = n + 1 <=> AllFull(c))
                /\ pc'[t] # "a_hdr" => (m = n /\ AllFull(c) /\ n = max_slabs)
                /\ SubSeq(slab_data'[c], 1, n) = slab_data[c]
                /\ base_address_map[c] \subseteq base_address_map'[c]
                /\ Cardinality(base_address_map'[c]) = m
                /\ m = n + 1 =>
                        /\ \A i \in 1..n : slab_map'[c][i] = slab_map[c][i]
                        /\ slab_map'[c][m] = {0}
                /\ (n = 1 /\ AllFull(c)) => m = 2]_vars

\* with every slot of the first chunk held, one more allocation has been
\* served: the slab owns exactly two chunks, the second with one bit set
C30_Witness ==
    \E t \in PoolThreads :
        /\ pc[t] = "a_hdr"
        /\ Len(slab_data[ProbedClass]) = 2
        /\ slab_map[ProbedClass][1] = 0..(SlotCount(ProbedClass) - 1)
        /\ slab_map[ProbedClass][2] = {0}
        /\ Cardinality(outstanding) = SlotCount(ProbedClass)

\* p is the base address of a slot of slab c whose occupancy bit is 1
AllocatedSlotBase(c, p) ==
    \E k \in 1..Len(slab_data[c]) :
        \E j \in 0..(SlotCount(c) - 1) :
            /\ p = slab_data[c][k] + j * ElemSize(c)
            /\ j \in slab_map[c][k]

\* p lies inside a slot of slab c but is not the slot's base address
InSlotInterior(c, p) ==
    \E k \in 1..Len(slab_data[c]) :
        /\ p >= slab_data[c][k]
        /\ p < slab_data[c][k] + SlotCount(c) * ElemSize(c)
        /\ (p - slab_data[c][k]) % ElemSize(c) # 0

\* p lies in a chunk of slab c behind its last slot
InUnusedTail(c, p) ==
    \E k \in 1..Len(slab_data[c]) :
        /\ p >= slab_data[c][k] + SlotCount(c) * ElemSize(c)
        /\ p < slab_data[c][k] + slab_alloc_size(c)

\* C31: Slab::deallocateItem(p) changes the state of the slab only when p is
\* the base address of a slot whose occupancy bit is 1; for every other
\* pointer inside a chunk (the interior of a slot, the unused tail behind
\* the last slot) it ends with std::invalid_argument and changes nothing.
C31_ExactBaseOnly ==
    [][\A t \in PoolThreads :
        (pc[t] = "d_item" /\ pc'[t] # "d_item") =>
            LET c == loc[t].slab
                p == loc[t].ptr
            IN  /\ slabVars' # slabVars => AllocatedSlotBase(c, p)
                /\ (InSlotInterior(c, p) \/ InUnusedTail(c, p)) =>
                        /\ pc'[t] = "throw_invalid_argument"
                        /\ UNCHANGED slabVars]_vars

\* deallocateItem holds the slab lock with a pointer 8 bytes into a slot
\* whose occupancy bit is 1
C31_Witness ==
    \E t \in PoolThreads :
        /\ pc[t] = "d_item"
        /\ InSlotInterior(loc[t].slab, loc[t].ptr)
        /\ ~InFreeSlot(loc[t].slab, loc[t].ptr)
        /\ outstanding # {}

\* thread t is outside every call, or its call has ended with an exception
CallEnded(t) ==
    pc[t] \in {"idle", "throw_invalid_argument", "throw_out_of_range",
               "throw_bad_alloc", "abort"}

\* C32: a thread whose allocate or deallocate has ended, by a return or by
\* std::invalid_argument or std::out_of_range, holds neither the Pool lock
\* nor a Slab lock; a held lock always belongs to a thread inside the
\* guarded block, so a thread waiting for a lock that no thread inside a
\* guarded block holds can take it: a failed call blocks no later call.
C32_LocksReleased ==
    /\ \A t \in PoolThreads :
            CallEnded(t) => (pool_lock # t /\ \A c \in ModelClasses : slab_lock[c] # t)
    /\ pool_lock # 0 => pc[pool_lock] \in {"a_sel", "d_sel"}
    /\ \A c \in ModelClasses :
            slab_lock[c] # 0 =>
                (pc[slab_lock[c]] \in {"a_item", "d_item"} /\ loc[slab_lock[c]].slab = c)
    /\ \A t \in PoolThreads :
            /\ (pc[t] \in {"a_pool", "d_pool"}
                    /\ \A u \in PoolThreads : pc[u] \notin {"a_sel", "d_sel"})
                => ENABLED PoolLockAcquire(t)
            /\ (pc[t] \in {"a_slab", "d_slab"}
                    /\ \A u \in PoolThreads :
                            pc[u] \in {"a_item", "d_item"} => loc[u].slab # loc[t].slab)
                => ENABLED SlabLockAcquire(t)

\* one call has ended with std::invalid_argument, another with
\* std::out_of_range, and the locks are free
C32_Witness ==
    /\ \E t \in PoolThreads : pc[t] = "throw_invalid_argument"
    /\ \E t \in PoolThreads : pc[t] = "throw_out_of_range"
    /\ pool_lock = 0
    /\ \A c \in ModelClasses : slab_lock[c] = 0

\* thread t is at a read or a write of the chunk sequence, the bitmaps or
\* the chunk-index map of a slab
Accessing(t) == pc[t] \in {"a_item", "a_set", "d_item", "d_reset", "g_read", "f_read"}

\* C33: whenever a thread reads or writes slab_data, slab_map,
\* slab_available_map or base_address_map of a Slab inside allocateItem,
\* deallocateItem, findSlabForItem or getAllocatedMemory, it holds that
\* Slab's lock, so no such access meets an allocateItem that adds a chunk.
C33_AccessUnderLock ==
    \A t \in PoolThreads :
        Accessing(t) =>
            /\ slab_lock[loc[t].slab] = t
            /\ ~(Growing(loc[t].slab) /\ pc[t] # "a_item")

\* a thread is at the read of getAllocatedMemory, or at the lookup of a
\* findSlabForItem called from outside, while another thread holds the lock
\* inside an allocateItem that adds a chunk
C33_Witness ==
    \E t, u \in PoolThreads :
        /\ pc[t] \in {"g_read", "f_read"}
        /\ pc[u] = "a_item"
        /\ slab_lock[loc[t].slab] = u
        /\ Growing(loc[t].slab)

\* chunks that hold n slots of slab c, and never fewer than the one chunk
\* the constructor allocates
ChunksFor(c, n) ==
    LET q == (n + SlotCount(c) - 1) \div SlotCount(c)
    IN  IF q < 1 THEN 1 ELSE q

\* C34: at every instant a slab owns max(1, ceil(P / slots per chunk))
\* chunks, P being the largest number of its slots allocated at a time so
\* far: a new slab owns one chunk, no step takes a chunk away or changes its
\* base address, and allocations that stay within the earlier peak add none.
C34_ChunksForPeak ==
    /\ [](\A c \in ModelClasses : Len(slab_data[c]) = ChunksFor(c, peak[c]))
    /\ [][\A c \in ModelClasses :
            /\ Len(slab_data'[c]) >= Len(slab_data[c])
            /\ SubSeq(slab_data'[c], 1, Len(slab_data[c])) = slab_data[c]
            /\ peak'[c] = peak[c] => slab_data'[c] = slab_data[c]]_vars

\* the slab grew to its cap, everything was freed, and the allocations are
\* being repeated: two chunks, one slot in use, the peak at four
C34_Witness ==
    /\ peak[ProbedClass] = max_slabs * SlotCount(ProbedClass)
    /\ Len(slab_data[ProbedClass]) = max_slabs
    /\ slab_map[ProbedClass][1] = {0}
    /\ \A k \in 2..max_slabs : slab_map[ProbedClass][k] = {}
    /\ Cardinality(outstanding) = 1

\* the free slots of slab c as <<chunk index, slot index>>
FreeSlots(c) ==
    {<<k, j>> \in (0..(Len(slab_map[c]) - 1)) \X (0..(SlotCount(c) - 1)) :
        j \notin slab_map[c][k + 1]}

\* <<k1, j1>> is the same slot as <<k2, j2>> or comes before it
SlotLeq(k1, j1, k2, j2) == k1 < k2 \/ (k1 = k2 /\ j1 <= j2)

\* C35: a Slab::allocateItem that returns hands out the free slot with the
\* lowest chunk index and, in that chunk, the lowest slot index (slot 0 of
\* the chunk it adds when no slot is free); and an allocate, a deallocate of
\* the pointer it returned and another allocate, with no other operation of
\* the slab in between, return the same pointer twice.
C35_FirstFit ==
    /\ [][\A t \in PoolThreads :
            (pc[t] = "a_item" /\ pc'[t] = "a_hdr") =>
                LET c == loc[t].slab
                    free == FreeSlots(c)
                IN  IF free = {}
                    THEN /\ Len(slab_data'[c]) = Len(slab_data[c]) + 1
                         /\ loc'[t].ptr = slab_data'[c][Len(slab_data'[c])]
                    ELSE \E f \in free :
                            /\ \A g \in free : SlotLeq(f[1], f[2], g[1], g[2])
                            /\ loc'[t].ptr = slab_data[c][f[1] + 1] + f[2] * ElemSize(c)
                            /\ slab_data'[c] = slab_data[c]]_vars
    /\ [](\A i \in 1..(Len(trail) - 2) :
            (/\ trail[i][1] = "allocate"
             /\ trail[i + 1] = <<"deallocate", trail[i][2]>>
             /\ trail[i + 2][1] = "allocate")
                => trail[i + 2][2] = trail[i][2])

\* slot 0 of the first chunk was allocated, freed and allocated again while
\* slot 0 of the second chunk was in use and its slot 1 free
C35_Witness ==
    /\ Len(trail) = 3
    /\ trail[1] = <<"allocate", slab_data[ProbedClass][1]>>
    /\ trail[2] = <<"deallocate", slab_data[ProbedClass][1]>>
    /\ trail[3] = <<"allocate", slab_data[ProbedClass][1]>>
    /\ Len(slab_data[ProbedClass]) = 2
    /\ slab_map[ProbedClass][2] = {0}

\* addresses around every block a chunk of slab c may occupy: below its
\* base, its first and last byte, its end, and the gap behind it
ResolvePtrs(c) ==
    UNION {{b - 16, b - 1, b, b + 1, b + ElemSize(c), b + slab_alloc_size(c) - 1,
            b + slab_alloc_size(c), b + slab_alloc_size(c) + 16} : b \in ClassRegions(c)}
        \cup {16}

\* the chunks of slab c whose bytes include p, by index
ChunksHolding(c, p) ==
    {i \in 0..(Len(slab_data[c]) - 1) :
        p >= slab_data[c][i + 1] /\ p < slab_data[c][i + 1] + slab_alloc_size(c)}

\* C36: in every reachable state base_address_map holds exactly one entry
\* per chunk, the base address of chunk i mapped to i; slab_data and slab_map
\* have the same length; and findSlabForItem(p) is i for the pointers of
\* [base of chunk i, base + slab_alloc_size) and nullopt for every pointer
\* below the lowest base, between chunks, and at or behind the end of the
\* highest chunk.
C36_ChunkIndexMap ==
    \A c \in ModelClasses :
        /\ Len(slab_data[c]) = Len(slab_map[c])
        /\ base_address_map[c] = {<<slab_data[c][i + 1], i>> : i \in 0..(Len(slab_data[c]) - 1)}
        /\ Cardinality(base_address_map[c]) = Len(slab_data[c])
        /\ \A p \in ResolvePtrs(c) :
                /\ Cardinality(ChunksHolding(c, p)) <= 1
                /\ \A i \in ChunksHolding(c, p) : findSlabForItem(c, p) = i
                /\ ChunksHolding(c, p) = {} => findSlabForItem(c, p) = -1

\* the second chunk of the slab lies below the first, and a deallocateItem
\* has found no chunk for its pointer
C36_Witness ==
    /\ Len(slab_data[ProbedClass]) = 2
    /\ slab_data[ProbedClass][2] < slab_data[ProbedClass][1]
    /\ pc[1] = "throw_invalid_argument"
    /\ \E p \in ResolvePtrs(ProbedClass) :
            /\ p > slab_data[ProbedClass][2] + slab_alloc_size(ProbedClass)
            /\ p < slab_data[ProbedClass][1]
            /\ findSlabForItem(ProbedClass, p) = -1

\* the values runtime_assert(getCount(my_ownership) >= 0) of h's destructor
\* or of h.reset would test, called in this state
AssertedCounts(h) ==
    getCount(releaseRef(Store, control_block[h], my_ownership[h]),
             control_block[h], my_ownership[h])

\* C37: for every existing ControlBlock, owner_count is the number of live
\* Owner handles on it (0 or 1) and observer_count the number of live
\* Observer handles on it, after every sequence of handle operations; and
\* the count a destructor decrements and then tests is never read as
\* negative, so the assertion on it never fires (reset tests the same read).
C37_CountsMatchHandles ==
    /\ [](\A b \in Blocks :
            block_state[b] = "live" =>
                /\ owner_count[b] = Cardinality(HandlesOf(b, "owner"))
                /\ observer_count[b] = Cardinality(HandlesOf(b, "observer"))
                /\ owner_count[b] \in {0, 1}
                /\ observer_count[b] >= 0)
    /\ [][\A h \in Handles :
            (Live(h) /\ h_state'[h] = "dead") => \A v \in AssertedCounts(h) : v >= 0]_vars

\* the destructor of an Owner has run on a ControlBlock that a move
\* assignment had deleted before: the block has been deleted with its owner
\* count at 1, and no live Owner refers to it
C37_Witness ==
    \E h \in Handles : \E b \in Blocks :
        /\ h_state[h] = "dead"
        /\ block_state[b] = "deleted"
        /\ owner_count[b] = 1
        /\ HandlesOf(b, "owner") = {}
        /\ HandlesOf(b, "observer") = {}

\* the state h.reset(other, t) is to leave: the discriminant t, and other's
\* ControlBlock for an observer or a new one with counts (1, 0) for an owner
ResetDone(h, other, t) ==
    /\ my_ownership'[h] = t
    /\ IF t = "observer"
       THEN control_block'[h] = control_block[other]
       ELSE /\ control_block'[h] = FreshBlock
            /\ block_state'[FreshBlock] = "live"
            /\ owner_count'[FreshBlock] = 1
            /\ observer_count'[FreshBlock] = 0

\* h.reset(other, t) can be called: both objects exist and operator new has
\* a ControlBlock left for an owner
ResetCallable(h, other, t) ==
    Live(h) /\ Live(other) /\ (t = "owner" => HasFresh)

\* C38: h.reset(other, t) with h and other distinct leaves h with the
\* discriminant t, on other's ControlBlock if t is observer and on a new
\* ControlBlock with counts (1, 0) if t is owner, also when h and other
\* referred to the same ControlBlock before the call; h.reset(h, t) changes
\* nothing.
C38_ResetTakesNewState ==
    \A h, other \in Handles : \A t \in RefTypes :
        ResetCallable(h, other, t) =>
            IF h = other
            THEN ENABLED (reset(h, other, t) /\ UNCHANGED loVars)
            ELSE ENABLED (reset(h, other, t) /\ ResetDone(h, other, t))

\* an Observer and the Owner it was obtained from, both alive on one
\* ControlBlock, with a ControlBlock left for reset(owner, e_refType::owner)
C38_Witness ==
    \E h, other \in Handles :
        /\ h # other
        /\ ResetCallable(h, other, "owner")
        /\ control_block[h] = control_block[other]
        /\ block_state[control_block[h]] = "live"
        /\ my_ownership[h] = "observer"
        /\ my_ownership[other] = "owner"
        /\ observed[h] = other

\* handle h is the same object on the same ControlBlock after the step: no
\* reset, assignment or destructor has re-targeted it
Untouched(h) ==
    /\ Live(h) /\ h_state'[h] = "live"
    /\ control_block'[h] = control_block[h]
    /\ my_ownership'[h] = my_ownership[h]

\* C39: every ControlBlock passes from owner_count > 0 to owner_count = 0,
\* then to both counts 0, then to destroyed, and never back: an owner_count
\* of 0 stays 0, a block is destroyed only from counts (0, 0), a destroyed
\* block stays destroyed; hence an isAlive() that can return false through
\* a handle returns false through that handle ever after, unless the handle
\* is re-targeted.
C39_NeverAliveAgain ==
    [][/\ \A b \in Blocks :
            /\ (block_state[b] = "live" /\ owner_count[b] = 0) => owner_count'[b] = 0
            /\ (block_state[b] = "live" /\ block_state'[b] = "deleted") =>
                    (owner_count'[b] = 0 /\ observer_count'[b] = 0)
            /\ block_state[b] = "deleted" => block_state'[b] = "deleted"
       /\ \A h \in Handles :
            (Untouched(h) /\ FALSE \in isAlive(h)) => isAlive(h)' = {FALSE}]_vars

\* an Observer of a living object refers to a destroyed ControlBlock, so
\* that its isAlive() may return false at one call and true at the next
C39_Witness ==
    \E o \in Handles :
        /\ Live(o)
        /\ my_ownership[o] = "observer"
        /\ observed[o] # 0
        /\ Live(observed[o])
        /\ block_state[control_block[o]] = "deleted"
        /\ isAlive(o) = BOOLEAN


\* a step of t that ends its backoff sleep
SleepEnds(t) == sl_pc[t] = "sleep" /\ sl_pc'[t] # "sleep"

\* C40: within one lock() call each of the first 10 failed acquisition
\* attempts is followed by one backoff sleep and every later failed attempt
\* by the wait on the flag; the backoff counter only grows during the call,
\* by one per sleep, so a call sleeps at most 10 times; the k-th sleep lasts
\* initial * 2^(k-1) ns with initial drawn from 1..100, so no sleep is
\* longer than 51200 ns
C40_BackoffSchedule ==
    /\ [](\A t \in LockThreads :
            InLock(t) =>
                /\ backoff_count[t] \in 0..MaxBackoffs
                /\ \E initial \in DistMin..DistMax :
                        wait_time[t] = initial * 2^backoff_count[t]
                /\ sl_pc[t] = "sleep" =>
                        /\ backoff_count[t] + 1 \in 1..10
                        /\ wait_time[t] <= 51200
                /\ sl_pc[t] \in {"wait", "blocked"} => backoff_count[t] = 10)
    /\ [][\A t \in LockThreads :
            /\ (sl_pc[t] = "tas" /\ lock_flag /\ sl_pc'[t] # "tas") =>
                    sl_pc'[t] = IF backoff_count[t] < 10 THEN "sleep" ELSE "wait"
            /\ (InLock(t) /\ InLock(t)') =>
                    /\ backoff_count'[t] =
                            IF SleepEnds(t) THEN backoff_count[t] + 1
                            ELSE backoff_count[t]
                    /\ wait_time'[t] =
                            IF SleepEnds(t) THEN 2 * wait_time[t]
                            ELSE wait_time[t]]_vars

\* the caller that drew 100 ns has slept ten times, the tenth time for
\* 51200 ns, failed once more and is blocked in the wait on the flag
C40_Witness ==
    /\ sl_pc[BackoffCaller] = "blocked"
    /\ backoff_count[BackoffCaller] = MaxBackoffs
    /\ wait_time[BackoffCaller] = 2 * 51200

=============================================================================
